---- MODULE Spec2Model ----
(***************************************************************************)
(* Reconciliation state machine of BrighterMerchant (OCRProcessor in       *)
(* src/demo/electron-demo.ts): snapshot processing, recomputation          *)
(* triggers, the in-flight record, the acceptance rule and the per-slot    *)
(* drop / accept signals.                                                  *)
(*                                                                         *)
(* Time is in milliseconds.  Every handler of the program runs to          *)
(* completion on the single JavaScript thread, so each one is one action.  *)
(***************************************************************************)
EXTENDS Integers, Sequences, FiniteSets, TLC

(***************************************************************************)
(* Bounds of the model                                                     *)
(***************************************************************************)
MaxActive == 2
MaxBoard == 2
MaxLaunches == 2
MaxTicks == 2
MaxChanges == 1
MaxComboSize == 2

(***************************************************************************)
(* Program constants                                                       *)
(***************************************************************************)
SCREENSHOT_INTERVAL_MS == 1000
pathfinderWorkerTimeoutMs == 20000
StaleMarginMs == 1000
dropGraceMs == 2000
suppressDropsWhileRecompute == TRUE

None == "none"
NaN == -1
PUMPKIN == "PUMPKIN"
BountyKeys == {"CAVIAR", "SOAP", PUMPKIN}
\* bountyData[b].kp
BountyKp(b) ==
  CASE b = "CAVIAR" -> 4 [] b = "SOAP" -> 8 [] b = PUMPKIN -> 8 [] b = "RIBS" -> 6
    [] b = "TIN_POCKET_WATCH" -> 10
\* order of the keys under Array.prototype.sort (UTF-16 code units)
KeyOrder(b) == CASE b = "CAVIAR" -> 1 [] b = PUMPKIN -> 2 [] b = "SOAP" -> 3
\* the time the best route spends on one task of each type; it depends on the
\* rooms the GPS can use (detectiveLevel, battleOfFortuneholdCompleted) and
\* is fixed for a run of the program.  In the first the two types are equally
\* efficient, in the second SOAP is strictly more efficient than CAVIAR
RouteTimes ==
  {[CAVIAR |-> 10, SOAP |-> 20], [CAVIAR |-> 20, SOAP |-> 20]}

ActiveSlots == 1..MaxActive
BoardSlots == 1..MaxBoard
SlotVals == BountyKeys \cup {None}

(***************************************************************************)
(* Helpers for slot maps ({ [index]: key }) and key lists                  *)
(***************************************************************************)
\* Object.keys(m).map(Number)
Keys(m) == {i \in DOMAIN m : m[i] # None}

RECURSIVE ValuesUpTo(_, _)
ValuesUpTo(m, i) ==
  IF i = 0 THEN <<>>
  ELSE IF m[i] = None THEN ValuesUpTo(m, i - 1)
       ELSE Append(ValuesUpTo(m, i - 1), m[i])
\* Object.values(m): the values in ascending index order
Values(m) == ValuesUpTo(m, Len(m))

InsertSorted(x, s) ==
  LET k == Cardinality({i \in 1..Len(s) : KeyOrder(s[i]) <= KeyOrder(x)})
  IN SubSeq(s, 1, k) \o <<x>> \o SubSeq(s, k + 1, Len(s))
RECURSIVE SortKeys(_)
\* list.slice().sort(); the join of the sorted list is injective, so the
\* sorted list itself stands for the joined string
SortKeys(s) == IF s = <<>> THEN <<>> ELSE InsertSorted(Head(s), SortKeys(Tail(s)))

\* list.filter(b => b === bounty).length
CountOf(s, b) == Cardinality({i \in 1..Len(s) : s[i] = b})

NotPumpkin(b) == b # PUMPKIN

\* a variant that joins the tasks in slot order
UnsortedSignature(allBounties) == allBounties

makeAllBountiesSignature(allBounties) == SortKeys(allBounties)

(***************************************************************************)
(* Worker replies                                                          *)
(***************************************************************************)
RECURSIVE SumKp(_)
SumKp(s) == IF s = <<>> THEN 0 ELSE BountyKp(Head(s)) + SumKp(Tail(s))

RECURSIVE PickSeq(_, _, _)
PickSeq(s, S, i) ==
  IF i > Len(s) THEN <<>>
  ELSE IF i \in S THEN <<s[i]>> \o PickSeq(s, S, i + 1)
       ELSE PickSeq(s, S, i + 1)

Min(a, b) == IF a < b THEN a ELSE b

\* combinations(bounties, Math.min(bounties.length, maxComboSize))
Combos(bounties) ==
  {PickSeq(bounties, S, 1) :
     S \in {T \in SUBSET (1..Len(bounties)) :
              Cardinality(T) = Min(Len(bounties), MaxComboSize)}}

Step(t, b) == [type |-> t, item |-> b]
\* the action list of a route for the subset: the purchases, the sales, and
\* the way back to the board
RouteActions(bounties) ==
  [i \in 1..Len(bounties) |-> Step("buy", bounties[i])]
  \o [i \in 1..Len(bounties) |-> Step("sell", bounties[i])]
  \o (IF bounties = <<>> THEN <<>> ELSE <<Step("return", None)>>)

VARIABLES
  regions,                   \* number of held and of offered regions that are read
  routeTimeOf,               \* route time per task of each type, fixed at start
  now,                       \* Date.now()
  ticks,                     \* number of clock advances so far (bounded)
  loopAwake,                 \* the screenshot loop has slept since its last snapshot
  lastOpen,                  \* the panel flag of the last snapshot
  activeBounties,            \* OCRProcessor fields
  boardBounties,
  prevActiveBounties,
  activeDrops,
  boardPickups,
  steps,
  kp,
  distanceSeconds,
  stepIdx,
  prevOptimalBounties,
  prevAllBountiesSignature,
  prevBoardOpenSignature,
  inFlightFind,
  launchedAtLeastOnce,
  recentActiveAdds,
  forceOptimal,
  nextId,                    \* PathfinderWorker.nextId
  pending,                   \* PathfinderWorker.pending, in request order
  workerAlive,               \* the worker thread has neither failed nor exited
  appearedAt,                \* per held slot, when it was first seen occupied
  lastAccepted,              \* the last Solution that was cached
  ev,                        \* the handler that ran last and what it decided
  call,                      \* a call of the planner: the function and its arguments
  returnedRoute,             \* what findBestRoute returned
  returnedResults,           \* what findBestBounties returned
  perf,                      \* what the loop of findBestBounties did (its [perf] line)
  client,                    \* a PathfinderWorker followed on its own: its fields, its
                             \* findBest calls and the worker thread
  utility,                   \* the utility process of pathfinder-utility-process.ts
  probe,                     \* two snapshots and the signatures computed for them
  mapper                     \* one call of mapWithConcurrency: its locals, its workers
                             \* and the promise it returned

vars == <<regions, routeTimeOf, now, ticks, loopAwake, lastOpen, activeBounties, boardBounties, prevActiveBounties,
          activeDrops, boardPickups, steps, kp, distanceSeconds, stepIdx,
          prevOptimalBounties, prevAllBountiesSignature, prevBoardOpenSignature,
          inFlightFind, launchedAtLeastOnce, recentActiveAdds, forceOptimal,
          nextId, pending, workerAlive, appearedAt, lastAccepted, ev,
          call, returnedRoute, returnedResults, perf, client, utility, probe, mapper>>

plannerVars == <<call, returnedRoute, returnedResults, perf>>
hostVars == <<client, utility, probe, mapper>>

\* route.distance of the best route of a subset: tasks of one type share
\* their stops, so each type of the subset is paid for once
RouteTime(c) ==
  LET types == {c[i] : i \in 1..Len(c)}
      RECURSIVE Sum(_)
      Sum(T) == IF T = {} THEN 0
                ELSE LET t == CHOOSE x \in T : TRUE
                     IN routeTimeOf[t] + Sum(T \ {t})
  IN Sum(types)

\* FindBestResult values the worker can reply for the given task list: the
\* best route of one of the combinations
FindBestResults(allBounties) ==
  {[bounties |-> c, kp |-> SumKp(c), actions |-> RouteActions(c),
    distance |-> RouteTime(c)] : c \in Combos(allBounties)}

\* inFlightFind === null
NoFind == [id |-> 0, signature |-> <<>>, startedAtMs |-> 0]
NoExpiry == 0

NoSolution == [kp |-> 0, distance |-> NaN]

\* no call of the planner is followed
NoCall ==
  [fn |-> "none", bounties |-> <<>>, threshold |-> 0, roundTrip |-> FALSE,
   numResults |-> 0,
   pruningOptions |-> [maxCombinations |-> 0, maxEvaluations |-> 0, pruningThreshold |-> 0],
   policy |-> "oldest", done |-> FALSE]
NoRoute ==
  [found |-> FALSE, actions |-> <<>>, distance |-> 0, explored |-> {}, left |-> <<>>,
   last |-> "none"]
NoCandidate == [combo |-> <<>>, kp |-> 0, estimatedDistance |-> 0]
NoPerf ==
  [evaluated |-> 0, skipped |-> 0, total |-> 0, stop |-> "none", held |-> <<>>,
   next |-> NoCandidate, planned |-> <<>>]
PlannerIdle ==
  /\ call = NoCall
  /\ returnedRoute = NoRoute
  /\ returnedResults = <<>>
  /\ perf = NoPerf

\* a PathfinderWorker after its construction: nextId = 1, pending empty,
\* the thread running; no call was made and no handler has run
NoClient ==
  [nextId |-> 1, pending |-> {}, calls |-> <<>>, posted |-> <<>>, thread |-> "running",
   clock |-> 0, last |-> [op |-> "init", id |-> 0, settled |-> FALSE]]
\* the utility process after its start: no GPS cached, no message received
NoUtility ==
  [cachedGpsKey |-> None, inbox |-> <<>>, handled |-> <<>>, replies |-> <<>>]
\* no snapshot is compared
NoProbe ==
  [first |-> [active |-> <<>>, board |-> <<>>],
   second |-> [active |-> <<>>, board |-> <<>>], signatures |-> <<>>]
\* mapWithConcurrency is not called
NoMapper ==
  [items |-> <<>>, concurrency |-> 0, nextIndex |-> 0, workers |-> <<>>, results |-> <<>>,
   calls |-> <<>>, completed |-> <<>>, promise |-> "none", returned |-> <<>>]
HostIdle ==
  /\ client = NoClient
  /\ utility = NoUtility
  /\ probe = NoProbe
  /\ mapper = NoMapper

NoEvent ==
  [op |-> "init", id |-> 0, reason |-> "none", recompute |-> FALSE,
   launched |-> FALSE, tracked |-> FALSE, stale |-> FALSE, sameSig |-> FALSE,
   adding |-> FALSE, had |-> FALSE, accepted |-> FALSE,
   result |-> [bounties |-> <<>>, kp |-> 0, actions |-> <<>>, distance |-> 0]]

\* the fields of a freshly constructed OCRProcessor and PathfinderWorker
Constructed ==
  /\ routeTimeOf \in RouteTimes
  /\ appearedAt = [i \in ActiveSlots |-> 0]
  /\ lastAccepted = NoSolution
  /\ now = 0
  /\ ticks = 0
  /\ loopAwake = TRUE
  /\ lastOpen = FALSE
  /\ activeBounties = [i \in ActiveSlots |-> None]
  /\ boardBounties = [i \in BoardSlots |-> None]
  /\ prevActiveBounties = [i \in ActiveSlots |-> None]
  /\ activeDrops = {}
  /\ boardPickups = {}
  /\ steps = <<>>
  /\ kp = 0
  /\ distanceSeconds = NaN
  /\ stepIdx = 0
  /\ prevOptimalBounties = <<>>
  /\ prevAllBountiesSignature = <<>>
  /\ prevBoardOpenSignature = FALSE
  /\ inFlightFind = NoFind
  /\ launchedAtLeastOnce = FALSE
  /\ recentActiveAdds = [i \in ActiveSlots |-> NoExpiry]
  /\ forceOptimal = FALSE
  /\ nextId = 1
  /\ pending = <<>>
  /\ workerAlive = TRUE
  /\ ev = NoEvent

\* the regions of the RegionManager: every held region and all offered
\* regions but one
Init ==
  /\ regions = [active |-> MaxActive, board |-> MaxBoard - 1]
  /\ Constructed
  /\ PlannerIdle
  /\ HostIdle

\* every offered region and all held regions but one, with the route times
\* of which the two task types differ in efficiency
InitOffers ==
  /\ regions = [active |-> MaxActive - 1, board |-> MaxBoard]
  /\ Constructed
  /\ routeTimeOf = [CAVIAR |-> 10, SOAP |-> 20]
  /\ PlannerIdle
  /\ HostIdle

(***************************************************************************)
(* The clock.  The screenshot loop sleeps SCREENSHOT_INTERVAL_MS between   *)
(* two snapshots; Date.now() is the wall clock, which can also jump ahead  *)
(* (a suspended machine, a clock adjustment) without the timers, which run *)
(* on the monotonic clock, having fired.                                   *)
(***************************************************************************)
LongPauseMs == pathfinderWorkerTimeoutMs + StaleMarginMs + SCREENSHOT_INTERVAL_MS

Tick ==
  /\ ticks < MaxTicks
  /\ \E dt \in {SCREENSHOT_INTERVAL_MS, LongPauseMs} :
       now' = now + dt
  /\ ticks' = ticks + 1
  /\ loopAwake' = TRUE
  /\ ev' = [NoEvent EXCEPT !.op = "tick"]
  /\ UNCHANGED <<hostVars, plannerVars, regions, routeTimeOf, lastOpen, activeBounties, boardBounties,
                 prevActiveBounties, activeDrops, boardPickups, steps, kp,
                 distanceSeconds, stepIdx, prevOptimalBounties,
                 prevAllBountiesSignature, prevBoardOpenSignature, inFlightFind,
                 launchedAtLeastOnce, recentActiveAdds, forceOptimal, nextId,
                 pending, workerAlive, appearedAt, lastAccepted>>

(***************************************************************************)
(* launchFindBestIfNeeded: what a call does to the in-flight record, given *)
(* the record it finds.  The computation it starts is the request with id  *)
(* nextId of the PathfinderWorker.                                         *)
(***************************************************************************)
\* a variant that waits twice as long before it gives a computation up
IsStaleLate(find) ==
  now - find.startedAtMs > 2 * (pathfinderWorkerTimeoutMs + StaleMarginMs)

IsStale(find) == now - find.startedAtMs > pathfinderWorkerTimeoutMs + StaleMarginMs

\* a variant that launches over a tracked computation of another signature
LaunchDecisionNoWait(find, signature) ==
  IF find # NoFind /\ find.signature = signature THEN FALSE ELSE TRUE

LaunchDecision(find, signature) ==
  IF find # NoFind /\ find.signature = signature THEN FALSE
  ELSE IF find # NoFind /\ ~IsStale(find) THEN FALSE
  ELSE TRUE

launchFindBestIfNeeded(find, signature) ==
  IF LaunchDecision(find, signature)
  THEN [launched |-> TRUE,
        inFlightFind |-> [id |-> nextId, signature |-> signature, startedAtMs |-> now]]
  ELSE [launched |-> FALSE, inFlightFind |-> find]

\* PathfinderWorker.findBest: the request joins the pending map
Request(signature) ==
  [id |-> nextId, signature |-> signature, startedAtMs |-> now, optimal |-> forceOptimal]

(***************************************************************************)
(* processOCRResultsAsync                                                  *)
(***************************************************************************)
\* the first key of prevBountyCounts whose count decreased
FirstDecreased(prevVals, currVals) ==
  LET dec == {i \in 1..Len(prevVals) :
                CountOf(currVals, prevVals[i]) < CountOf(prevVals, prevVals[i])}
  IN IF dec = {} THEN None
     ELSE prevVals[CHOOSE i \in dec : \A j \in dec : i <= j]

\* a variant that looks for the last sell step of the item
LastSellIdx(stepList, item) ==
  LET sells == {i \in 1..Len(stepList) :
                  stepList[i].type = "sell" /\ stepList[i].item = item}
  IN IF sells = {} THEN 0 ELSE CHOOSE i \in sells : \A j \in sells : i >= j

\* index of the first sell step of the item, 0 when there is none
FirstSellIdx(stepList, item) ==
  LET sells == {i \in 1..Len(stepList) :
                  stepList[i].type = "sell" /\ stepList[i].item = item}
  IN IF sells = {} THEN 0 ELSE CHOOSE i \in sells : \A j \in sells : i <= j

\* a variant whose window ends one screenshot interval early
InGraceShort(adds, idx) ==
  adds[idx] # NoExpiry /\ adds[idx] > now + SCREENSHOT_INTERVAL_MS

InGrace(adds, idx) == adds[idx] # NoExpiry /\ adds[idx] > now

\* a variant that takes the surplus from the highest indices
ComputeActiveDropsHighest(detectedActive, optimalBounties, adds) ==
  LET pumpkins == {idx \in Keys(detectedActive) :
                     detectedActive[idx] = PUMPKIN /\ ~InGrace(adds, idx)}
      indices(b) == {idx \in Keys(detectedActive) : detectedActive[idx] = b}
      extras(b) ==
        LET n == Cardinality(indices(b)) - CountOf(optimalBounties, b)
        IN {idx \in indices(b) : Cardinality({j \in indices(b) : j > idx}) < n}
  IN pumpkins \cup
     UNION {{idx \in extras(b) : ~InGrace(adds, idx)} : b \in BountyKeys \ {PUMPKIN}}

ComputeActiveDrops(detectedActive, optimalBounties, adds) ==
  LET pumpkins == {idx \in Keys(detectedActive) :
                     detectedActive[idx] = PUMPKIN /\ ~InGrace(adds, idx)}
      indices(b) == {idx \in Keys(detectedActive) : detectedActive[idx] = b}
      extras(b) ==
        LET n == Cardinality(indices(b)) - CountOf(optimalBounties, b)
        IN {idx \in indices(b) : Cardinality({j \in indices(b) : j < idx}) < n}
  IN pumpkins \cup
     UNION {{idx \in extras(b) : ~InGrace(adds, idx)} : b \in BountyKeys \ {PUMPKIN}}

\* a variant that does not count the slots already signaled
PickupsUncounted(detectedBoard, detectedActive, optimalBounties, i) ==
  {j \in 1..i :
     /\ detectedBoard[j] \notin {None, PUMPKIN}
     /\ CountOf(Values(detectedActive), detectedBoard[j])
          < CountOf(optimalBounties, detectedBoard[j])}

RECURSIVE PickupsUpTo(_, _, _, _)
PickupsUpTo(detectedBoard, detectedActive, optimalBounties, i) ==
  IF i = 0 THEN {}
  ELSE
    LET before == PickupsUpTo(detectedBoard, detectedActive, optimalBounties, i - 1)
        bounty == detectedBoard[i]
    IN IF bounty = None \/ bounty = PUMPKIN \/ CountOf(optimalBounties, bounty) = 0
       THEN before
       ELSE IF CountOf(Values(detectedActive), bounty)
                 + Cardinality({j \in before : detectedBoard[j] = bounty})
               < CountOf(optimalBounties, bounty)
            THEN before \cup {i}
            ELSE before

\* a variant that does not count the held tasks of the type
ComputeBoardPickupsHeldUncounted(detectedBoard, detectedActive, optimalBounties, boardOpen) ==
  IF boardOpen
  THEN PickupsUpTo(detectedBoard, [i \in ActiveSlots |-> None], optimalBounties,
                   Len(detectedBoard))
  ELSE {}

ComputeBoardPickups(detectedBoard, detectedActive, optimalBounties, boardOpen) ==
  IF boardOpen
  THEN PickupsUpTo(detectedBoard, detectedActive, optimalBounties, Len(detectedBoard))
  ELSE {}

\* recentActiveAdds after the bookkeeping at the top of the handler
TrackAdds(detectedActive) ==
  LET added == [idx \in ActiveSlots |->
                  IF idx \in Keys(detectedActive) /\ idx \notin Keys(prevActiveBounties)
                  THEN now + dropGraceMs ELSE recentActiveAdds[idx]]
  IN [idx \in ActiveSlots |->
        IF added[idx] = NoExpiry THEN NoExpiry
        ELSE IF added[idx] <= now THEN NoExpiry
        ELSE IF idx \notin Keys(detectedActive) THEN NoExpiry
        ELSE added[idx]]

\* a variant without the adjustingBounties test
ShouldRecomputeWhileAdjusting(detectedActive, detectedBoard, boardOpen) ==
  LET allBounties == SelectSeq(Values(detectedActive) \o Values(detectedBoard), NotPumpkin)
      signature == makeAllBountiesSignature(allBounties)
      boardTransition == boardOpen # prevBoardOpenSignature
      signatureChanged == signature # prevAllBountiesSignature
      firstRun == ~launchedAtLeastOnce
      addingBounties ==
        Cardinality(Keys(detectedActive)) > Cardinality(Keys(prevActiveBounties))
      boardBountiesChanged ==
        boardOpen /\ SortKeys(Values(boardBounties)) # SortKeys(Values(detectedBoard))
      activeMatchesOptimal ==
        SortKeys(Values(detectedActive)) = SortKeys(prevOptimalBounties)
  IN \/ firstRun
     \/ boardTransition
     \/ boardBountiesChanged
     \/ (signatureChanged /\ addingBounties)
     \/ (activeMatchesOptimal /\ signatureChanged)

ShouldRecompute(detectedActive, detectedBoard, boardOpen) ==
  LET allBounties == SelectSeq(Values(detectedActive) \o Values(detectedBoard), NotPumpkin)
      signature == makeAllBountiesSignature(allBounties)
      boardTransition == boardOpen # prevBoardOpenSignature
      signatureChanged == signature # prevAllBountiesSignature
      firstRun == ~launchedAtLeastOnce
      addingBounties ==
        Cardinality(Keys(detectedActive)) > Cardinality(Keys(prevActiveBounties))
      boardBountiesChanged ==
        boardOpen /\ SortKeys(Values(boardBounties)) # SortKeys(Values(detectedBoard))
      haveOptimal == Len(prevOptimalBounties) > 0
      activeMatchesOptimal ==
        SortKeys(Values(detectedActive)) = SortKeys(prevOptimalBounties)
      adjustingBounties == haveOptimal /\ ~activeMatchesOptimal /\ boardOpen
  IN \/ firstRun
     \/ boardTransition
     \/ boardBountiesChanged
     \/ (signatureChanged /\ addingBounties /\ ~adjustingBounties)
     \/ (activeMatchesOptimal /\ signatureChanged)

\* the reason string handed to launchFindBestIfNeeded
RecomputeReason(detectedActive, detectedBoard, boardOpen) ==
  IF ~ShouldRecompute(detectedActive, detectedBoard, boardOpen) THEN "none"
  ELSE IF ~launchedAtLeastOnce THEN "firstRun"
  ELSE IF boardOpen # prevBoardOpenSignature THEN "boardTransition"
  ELSE IF boardOpen /\ SortKeys(Values(boardBounties)) # SortKeys(Values(detectedBoard))
       THEN "boardRefresh"
  ELSE IF SortKeys(Values(detectedActive)) = SortKeys(prevOptimalBounties)
       THEN "readyForNext"
  ELSE "addingBounties"

\* a variant that looks at the record the snapshot found
RecomputeInFlightBefore(launch) == inFlightFind # NoFind

\* const recomputeInFlight = !!this.inFlightFind, read after the trigger step
RecomputeInFlight(launch) == launch.inFlightFind # NoFind

processOCRResultsAsync(detectedActive, detectedBoard, boardOpen) ==
  \E adds \in {TrackAdds(detectedActive)},
     signature \in {makeAllBountiesSignature(
                      SelectSeq(Values(detectedActive) \o Values(detectedBoard), NotPumpkin))},
     shouldRecompute \in {ShouldRecompute(detectedActive, detectedBoard, boardOpen)} :
  \E launch \in {IF shouldRecompute
                 THEN launchFindBestIfNeeded(inFlightFind, signature)
                 ELSE [launched |-> FALSE, inFlightFind |-> inFlightFind]} :
  LET boardTransition == boardOpen # prevBoardOpenSignature
      firstRun == ~launchedAtLeastOnce
      stepIdx1 == IF shouldRecompute /\ (firstRun \/ boardTransition) THEN 0 ELSE stepIdx
      hasOptimal == Len(prevOptimalBounties) > 0
      optimalBounties == prevOptimalBounties
      prevCount == Cardinality(Keys(prevActiveBounties))
      currCount == Cardinality(Keys(detectedActive))
      completedBounty ==
        IF prevCount > currCount /\ prevCount - currCount = 1
        THEN FirstDecreased(Values(prevActiveBounties), Values(detectedActive))
        ELSE None
      completedStepIdx ==
        IF completedBounty # None THEN FirstSellIdx(steps, completedBounty) ELSE 0
      steps1 == IF completedStepIdx # 0
                THEN SubSeq(steps, completedStepIdx + 1, Len(steps)) ELSE steps
      stepIdx2 == IF completedStepIdx # 0 THEN stepIdx1 + completedStepIdx ELSE stepIdx1
      allCompleted == currCount = 0 /\ prevCount > 0 /\ completedBounty # None
      recomputeInFlight == RecomputeInFlight(launch)
  IN
  /\ launch.launched => nextId <= MaxLaunches
  /\ recentActiveAdds' = adds
  /\ inFlightFind' = launch.inFlightFind
  /\ launchedAtLeastOnce' = (launchedAtLeastOnce \/ launch.launched)
  /\ pending' = IF launch.launched THEN Append(pending, Request(signature)) ELSE pending
  /\ nextId' = IF launch.launched THEN nextId + 1 ELSE nextId
  /\ prevBoardOpenSignature' = IF shouldRecompute THEN boardOpen ELSE prevBoardOpenSignature
  /\ activeBounties' = detectedActive
  /\ boardBounties' = detectedBoard
  /\ prevActiveBounties' = detectedActive
  /\ appearedAt' = [idx \in ActiveSlots |->
                      IF idx \notin Keys(detectedActive) THEN 0
                      ELSE IF idx \notin Keys(prevActiveBounties) THEN now
                      ELSE appearedAt[idx]]
  /\ ev' = [NoEvent EXCEPT !.op = "snapshot",
                           !.id = IF launch.launched THEN nextId ELSE 0,
                           !.reason = RecomputeReason(detectedActive, detectedBoard, boardOpen),
                           !.adding = (currCount > prevCount),
                           !.had = hasOptimal,
                           !.recompute = shouldRecompute,
                           !.launched = launch.launched,
                           !.tracked = (inFlightFind # NoFind),
                           !.stale = (inFlightFind # NoFind /\ IsStale(inFlightFind)),
                           !.sameSig = (inFlightFind # NoFind
                                         /\ inFlightFind.signature = signature)]
  /\ IF ~hasOptimal
     THEN /\ activeDrops' = {}
          /\ boardPickups' = {}
          /\ stepIdx' = stepIdx1
          /\ UNCHANGED <<steps, kp, distanceSeconds, prevOptimalBounties>>
     ELSE /\ stepIdx' = stepIdx2
          /\ IF allCompleted
             THEN /\ prevOptimalBounties' = <<>>
                  /\ kp' = 0
                  /\ distanceSeconds' = NaN
                  /\ steps' = <<>>
             ELSE /\ steps' = steps1
                  /\ UNCHANGED <<prevOptimalBounties, kp, distanceSeconds>>
          /\ activeDrops' =
               IF suppressDropsWhileRecompute /\ recomputeInFlight THEN {}
               ELSE ComputeActiveDrops(detectedActive, optimalBounties, adds)
          /\ boardPickups' =
               ComputeBoardPickups(detectedBoard, detectedActive, optimalBounties, boardOpen)
  /\ UNCHANGED <<hostVars, plannerVars, regions, routeTimeOf, now, ticks, prevAllBountiesSignature, forceOptimal,
                 workerAlive, lastAccepted>>

\* The snapshots the screen can show next: the board regions are read only
\* when the board title is recognised; between two snapshots the panel is
\* opened or closed, or at most MaxChanges slots change.
NoBoard == [i \in BoardSlots |-> None]
Differing(m1, m2) == Cardinality({i \in DOMAIN m1 : m1[i] # m2[i]})
\* held tasks that are sold together disappear together: any number of
\* held slots becoming empty is one change, as is each slot that shows a
\* new task
HeldChanges(active) ==
  Cardinality({i \in ActiveSlots : active[i] # activeBounties[i] /\ active[i] # None})
  + (IF \E i \in ActiveSlots : active[i] = None /\ activeBounties[i] # None
     THEN 1 ELSE 0)
\* the held slots a snapshot can show: only the held regions are read, and
\* no more than MaxChanges changes fit between two snapshots
HeldChoices ==
  {active \in [ActiveSlots -> SlotVals] :
     /\ \A i \in ActiveSlots : i > regions.active => active[i] = None
     /\ HeldChanges(active) <= MaxChanges}
\* the offered slots a snapshot can show: only the offered regions are read
OfferedChoices ==
  {board \in [BoardSlots -> SlotVals] :
     \A i \in BoardSlots : i > regions.board => board[i] = None}
NextSnapshots ==
  {s \in [active : HeldChoices, board : OfferedChoices, open : BOOLEAN] :
     /\ ~s.open => s.board = NoBoard
     /\ IF s.open # lastOpen
        THEN 1 + HeldChanges(s.active) <= MaxChanges
        ELSE HeldChanges(s.active) + Differing(s.board, boardBounties)
               <= MaxChanges}

\* one iteration of the loop of ScreenshotManager.start
Snapshot ==
  /\ loopAwake
  /\ loopAwake' = FALSE
  /\ \E s \in NextSnapshots :
       /\ lastOpen' = s.open
       /\ processOCRResultsAsync(s.active, s.board, s.open)

(***************************************************************************)
(* Settlement of a computation: the continuation of the async block of     *)
(* launchFindBestIfNeeded after computeFindBest resolved or threw          *)
(***************************************************************************)
\* a variant with the comparison the other way round
EfficiencyLess(newKp, newDistance, curKp, curDistance) ==
  /\ ~(newKp = 0 /\ newDistance = 0)
  /\ newDistance > 0
  /\ newKp * curDistance < curKp * newDistance

\* newEfficiency > currentEfficiency, for kp / distance quotients; a quotient
\* 0 / 0 is NaN and compares false
EfficiencyGreater(newKp, newDistance, curKp, curDistance) ==
  /\ ~(newKp = 0 /\ newDistance = 0)
  /\ \/ (newDistance = 0 /\ newKp > 0)
     \/ (newDistance > 0 /\ newKp * curDistance > curKp * newDistance)

\* a variant that also accepts a result of equal efficiency
AcceptsResultOnTie(res) ==
  LET haveCurrent == Len(prevOptimalBounties) > 0 /\ distanceSeconds > 0
  IN \/ ~haveCurrent
     \/ kp = 0
     \/ EfficiencyGreater(res.kp, res.distance, kp, distanceSeconds)
     \/ (res.distance > 0 /\ res.kp * distanceSeconds = kp * res.distance)

\* currentEfficiency === 0 || newEfficiency > currentEfficiency
AcceptsResult(res) ==
  LET haveCurrent == Len(prevOptimalBounties) > 0 /\ distanceSeconds > 0
  IN \/ ~haveCurrent
     \/ kp = 0
     \/ EfficiencyGreater(res.kp, res.distance, kp, distanceSeconds)

RECURSIVE FilterSteps(_, _)
\* the mid-route filter: skip the buy steps of items already held
FilterSteps(actions, currentlyHaveItems) ==
  IF actions = <<>> THEN <<>>
  ELSE
    LET s == Head(actions)
    IN IF s.type = "buy" /\ s.item \in currentlyHaveItems
       THEN FilterSteps(Tail(actions), currentlyHaveItems)
       ELSE <<s>> \o FilterSteps(Tail(actions),
                       IF s.type = "buy" THEN currentlyHaveItems \cup {s.item}
                       ELSE IF s.type = "sell" THEN currentlyHaveItems \ {s.item}
                       ELSE currentlyHaveItems)

\* a variant whose finally leaves the in-flight record in place
ClearInFlightKept(signature) == inFlightFind

\* finally { if (this.inFlightFind?.signature === signature) this.inFlightFind = null }
ClearInFlight(signature) ==
  IF inFlightFind # NoFind /\ inFlightFind.signature = signature
  THEN NoFind ELSE inFlightFind

SettleEvent(op, req, res) ==
  [NoEvent EXCEPT !.op = op, !.id = req.id,
                  !.tracked = (inFlightFind.id = req.id),
                  !.had = (Len(prevOptimalBounties) > 0),
                  !.accepted = (op = "resolved" /\ AcceptsResult(res)),
                  !.result = res]

\* the worker answers the oldest pending request with ok:true
FindBestResolved ==
  /\ workerAlive
  /\ pending # <<>>
  /\ LET req == Head(pending)
     IN \E res \in FindBestResults(req.signature) :
          /\ pending' = Tail(pending)
          /\ forceOptimal' = FALSE
          /\ IF AcceptsResult(res)
             THEN /\ prevOptimalBounties' = res.bounties
                  /\ kp' = res.kp
                  /\ distanceSeconds' = res.distance
                  /\ lastAccepted' = IF res.bounties = <<>> THEN lastAccepted
                                     ELSE [kp |-> res.kp, distance |-> res.distance]
                  /\ IF stepIdx > 0 /\ Len(res.actions) > 0
                     THEN /\ steps' = FilterSteps(res.actions,
                                        {activeBounties[i] : i \in Keys(activeBounties)})
                          /\ stepIdx' = 0
                     ELSE /\ steps' = res.actions
                          /\ UNCHANGED stepIdx
             ELSE UNCHANGED <<prevOptimalBounties, kp, distanceSeconds, steps, stepIdx,
                              lastAccepted>>
          /\ prevAllBountiesSignature' = req.signature
          /\ inFlightFind' = ClearInFlight(req.signature)
          /\ ev' = SettleEvent("resolved", req, res)
  /\ UNCHANGED <<hostVars, plannerVars, regions, routeTimeOf, now, ticks, loopAwake, lastOpen, activeBounties,
                 boardBounties, prevActiveBounties, activeDrops, boardPickups,
                 prevBoardOpenSignature, launchedAtLeastOnce, recentActiveAdds,
                 nextId, workerAlive, appearedAt>>

\* a rejected findBest: catch { keep previous state } finally { ... }
Rejected(req) ==
  /\ forceOptimal' = FALSE
  /\ inFlightFind' = ClearInFlight(req.signature)
  /\ ev' = SettleEvent("rejected", req, NoEvent.result)
  /\ UNCHANGED <<hostVars, plannerVars, regions, routeTimeOf, now, ticks, loopAwake, lastOpen, activeBounties,
                 boardBounties, prevActiveBounties, activeDrops, boardPickups,
                 steps, kp, distanceSeconds, stepIdx, prevOptimalBounties,
                 prevAllBountiesSignature, prevBoardOpenSignature,
                 launchedAtLeastOnce, recentActiveAdds, nextId, workerAlive,
                 appearedAt, lastAccepted>>

\* the worker answers the oldest pending request with ok:false
FindBestFailed ==
  /\ workerAlive
  /\ pending # <<>>
  /\ pending' = Tail(pending)
  /\ Rejected(Head(pending))

\* setTimeout(..., timeoutMs) of findBest has run out for the request
TimerDue(req) == now - req.startedAtMs >= pathfinderWorkerTimeoutMs

\* the timer of findBest fires, not before timeoutMs
FindBestTimeout ==
  \E i \in 1..Len(pending) :
    /\ TimerDue(pending[i])
    /\ pending' = SubSeq(pending, 1, i - 1) \o SubSeq(pending, i + 1, Len(pending))
    /\ Rejected(pending[i])

\* a variant in which the requests rejected with the thread leave the record
ClearInFlightNone(requests) == inFlightFind

\* finally of every rejected request, in request order
ClearInFlightAll(requests) ==
  IF inFlightFind # NoFind
     /\ \E i \in 1..Len(requests) : requests[i].signature = inFlightFind.signature
  THEN NoFind ELSE inFlightFind

\* the worker thread fails, or exits with a code other than 0: every pending
\* request is rejected, and requests sent afterwards are never answered
WorkerError ==
  /\ workerAlive
  /\ workerAlive' = FALSE
  /\ pending' = <<>>
  /\ forceOptimal' = IF pending = <<>> THEN forceOptimal ELSE FALSE
  /\ inFlightFind' = ClearInFlightAll(pending)
  /\ ev' = [NoEvent EXCEPT !.op = "workerError",
                           !.id = inFlightFind.id,
                           !.tracked = (\E i \in 1..Len(pending) :
                                          pending[i].id = inFlightFind.id),
                           !.had = (Len(prevOptimalBounties) > 0)]
  /\ UNCHANGED <<hostVars, plannerVars, regions, routeTimeOf, now, ticks, loopAwake, lastOpen, activeBounties,
                 boardBounties, prevActiveBounties, activeDrops, boardPickups,
                 steps, kp, distanceSeconds, stepIdx, prevOptimalBounties,
                 prevAllBountiesSignature, prevBoardOpenSignature,
                 launchedAtLeastOnce, recentActiveAdds, nextId, appearedAt,
                 lastAccepted>>

(***************************************************************************)
(* forceOptimalRecalculation (Cmd+N)                                       *)
(***************************************************************************)
forceOptimalRecalculation ==
  LET allBounties ==
        SelectSeq(Values(activeBounties) \o Values(boardBounties), NotPumpkin)
      signature == makeAllBountiesSignature(allBounties)
      launch == IF Len(allBounties) > 0
                THEN launchFindBestIfNeeded(NoFind, signature)
                ELSE [launched |-> FALSE, inFlightFind |-> NoFind]
  IN
  /\ launch.launched => nextId <= MaxLaunches
  /\ prevOptimalBounties' = <<>>
  /\ kp' = 0
  /\ distanceSeconds' = NaN
  /\ inFlightFind' = launch.inFlightFind
  /\ forceOptimal' = launch.launched
  /\ launchedAtLeastOnce' = (launchedAtLeastOnce \/ launch.launched)
  /\ pending' = IF launch.launched
                THEN Append(pending, [Request(signature) EXCEPT !.optimal = TRUE])
                ELSE pending
  /\ nextId' = IF launch.launched THEN nextId + 1 ELSE nextId
  /\ ev' = [NoEvent EXCEPT !.op = "force",
                           !.id = IF launch.launched THEN nextId ELSE 0,
                           !.launched = launch.launched,
                           !.had = (Len(prevOptimalBounties) > 0),
                           !.tracked = (inFlightFind # NoFind)]
  /\ UNCHANGED <<hostVars, plannerVars, regions, routeTimeOf, now, ticks, loopAwake, lastOpen, activeBounties,
                 boardBounties, prevActiveBounties, activeDrops, boardPickups,
                 steps, stepIdx, prevAllBountiesSignature,
                 prevBoardOpenSignature, recentActiveAdds, workerAlive, appearedAt,
                 lastAccepted>>

Next ==
  \/ Tick
  \/ Snapshot
  \/ FindBestResolved
  \/ FindBestFailed
  \/ FindBestTimeout
  \/ WorkerError
  \/ forceOptimalRecalculation

Spec == Init /\ [][Next]_vars

(***************************************************************************)
(* The same program with one held and one offered region, followed until   *)
(* every computation has settled.  Time does not stop: past the clock      *)
(* advances that Tick counts, the clock runs on to the next timer of a     *)
(* pending request.  The event loop runs a timer that is due, so Tick, the *)
(* running clock and the timeout of findBest are weakly fair; nothing      *)
(* obliges the worker to answer or the screen to change.                   *)
(***************************************************************************)
ClockRuns ==
  /\ ticks = MaxTicks
  /\ \E i \in 1..Len(pending) : ~TimerDue(pending[i])
  /\ now' = now + pathfinderWorkerTimeoutMs
  /\ ev' = [NoEvent EXCEPT !.op = "clock"]
  /\ UNCHANGED <<hostVars, plannerVars, regions, routeTimeOf, ticks, loopAwake, lastOpen,
                 activeBounties, boardBounties, prevActiveBounties, activeDrops,
                 boardPickups, steps, kp, distanceSeconds, stepIdx, prevOptimalBounties,
                 prevAllBountiesSignature, prevBoardOpenSignature, inFlightFind,
                 launchedAtLeastOnce, recentActiveAdds, forceOptimal, nextId, pending,
                 workerAlive, appearedAt, lastAccepted>>

InitSettle ==
  /\ regions = [active |-> 1, board |-> 1]
  /\ Constructed
  /\ routeTimeOf = [CAVIAR |-> 10, SOAP |-> 20]
  /\ PlannerIdle
  /\ HostIdle

NextSettle ==
  \/ Next
  \/ ClockRuns

SpecSettle ==
  /\ InitSettle
  /\ [][NextSettle]_vars
  /\ WF_vars(Tick)
  /\ WF_vars(ClockRuns)
  /\ WF_vars(FindBestTimeout)

(***************************************************************************)
(* The same program once the screen has stopped changing: past the         *)
(* iterations that Tick counts, every iteration of the screenshot loop     *)
(* reads the snapshot it read before.  The loop never ends, so the         *)
(* repeated snapshot is weakly fair as well.                               *)
(***************************************************************************)
SnapshotRepeats ==
  /\ ticks = MaxTicks
  /\ loopAwake' = FALSE
  /\ UNCHANGED lastOpen
  /\ processOCRResultsAsync(activeBounties, boardBounties, lastOpen)

NextConverge ==
  \/ NextSettle
  \/ SnapshotRepeats

SpecConverge ==
  /\ InitSettle
  /\ [][NextConverge]_vars
  /\ WF_vars(Tick)
  /\ WF_vars(ClockRuns)
  /\ WF_vars(FindBestTimeout)
  /\ WF_vars(SnapshotRepeats)

SpecOffers == InitOffers /\ [][Next]_vars

TypeOK ==
  /\ now \in Nat
  /\ routeTimeOf \in RouteTimes
  /\ regions \in [active : 0..MaxActive, board : 0..MaxBoard]
  /\ appearedAt \in [ActiveSlots -> Nat]
  /\ recentActiveAdds \in [ActiveSlots -> Nat]
  /\ inFlightFind.id \in 0..MaxLaunches
  /\ stepIdx \in Nat
  /\ activeBounties \in [ActiveSlots -> SlotVals]
  /\ boardBounties \in [BoardSlots -> SlotVals]
  /\ prevActiveBounties = activeBounties
  /\ activeDrops \subseteq ActiveSlots
  /\ boardPickups \subseteq BoardSlots
  /\ nextId \in 1..(MaxLaunches + 1)
  /\ workerAlive \in BOOLEAN
  /\ Len(pending) <= MaxLaunches

(***************************************************************************)
(* The planner (src/algorithm/pathfinder.ts).  findBestRoute and           *)
(* findBestBounties are pure functions of their arguments; they are        *)
(* operators here, computed loop iteration by loop iteration.              *)
(***************************************************************************)
MaxTasks == 5
MaxAllBounties == 4
MaxResults == 2
MaxEvaluations == 3
MaxCombinations == 2
MaxThresholdSteps == 2
ThresholdStepSeconds == 40

inventorySpace == 24
UnitSpace == 6
timeToBuy == 3
timeToSell == 4
\* Number.MAX_SAFE_INTEGER, cut to the integers of the model checker; it is
\* above every route time
MAX_SAFE_INTEGER == 2147483647

NOT_STARTED == "NOT_STARTED"
IN_PROGRESS == "IN_PROGRESS"
COMPLETED == "COMPLETED"

\* bountyData[b].seller.node and bountyData[b].buyer.node
RouteKeys == {"CAVIAR", "RIBS", "SOAP"}
\* the task types of the lists handed to findBestBounties
SelectorKeys == {"CAVIAR", "SOAP", "TIN_POCKET_WATCH"}
SellerNode(b) ==
  CASE b = "SOAP" -> "SOAP_SHOP"
    [] b = "RIBS" -> "BUTCHERS_STALL"
    [] b = "CAVIAR" -> "JANESSAS_DELICACIES"
    [] b = "TIN_POCKET_WATCH" -> "SNILCHS_WATCHES"
BuyerNode(b) ==
  CASE b = "SOAP" -> "BUTCHERS_STALL"
    [] b = "RIBS" -> "SOUVENIR_STALL"
    [] b = "CAVIAR" -> "BOGGS_ANTIQUES"
    [] b = "TIN_POCKET_WATCH" -> "BOGGS_ANTIQUES"

\* The location graph (nodes.ts, gps.ts).  The board and three stalls are in
\* one town, the two other shops are next to one portal each, and the only
\* way from one portal to the other is the teleport, at the fixed teleport
\* cost.
bountyBoard == "BOUNTY_BOARD"
CRENOPOLIS_MARKET == "CRENOPOLIS_MARKET"
CRENOPOLIS_OUTSKIRTS == "CRENOPOLIS_OUTSKIRTS"
\* portals.CRENOPOLIS_MARKET.teleportTime, portals.CRENOPOLIS_OUTSKIRTS.teleportTime
teleportTime(portal) ==
  CASE portal = CRENOPOLIS_MARKET -> 10 [] portal = CRENOPOLIS_OUTSKIRTS -> 10
Nodes ==
  {bountyBoard, "SOAP_SHOP", "BUTCHERS_STALL", "SOUVENIR_STALL",
   "JANESSAS_DELICACIES", "BOGGS_ANTIQUES", "SNILCHS_WATCHES",
   CRENOPOLIS_MARKET, CRENOPOLIS_OUTSKIRTS}
Edges ==
  {<<bountyBoard, "BUTCHERS_STALL", 5>>,
   <<bountyBoard, "SOAP_SHOP", 8>>,
   <<"SOAP_SHOP", "SOUVENIR_STALL", 5>>,
   <<bountyBoard, "JANESSAS_DELICACIES", 12>>,
   <<"JANESSAS_DELICACIES", CRENOPOLIS_MARKET, 4>>,
   <<CRENOPOLIS_MARKET, CRENOPOLIS_OUTSKIRTS, teleportTime(CRENOPOLIS_OUTSKIRTS)>>,
   <<CRENOPOLIS_OUTSKIRTS, "BOGGS_ANTIQUES", 4>>,
   <<CRENOPOLIS_OUTSKIRTS, "SNILCHS_WATCHES", 10>>}

NoPath == [distance |-> 0, path |-> <<>>]

\* the last node of a path
Last(path) == path[Len(path)]

RECURSIVE Relax(_, _)
\* the quickest known path to each node reached so far, after some more
\* rounds of edge relaxation
Relax(best, rounds) ==
  IF rounds = 0 THEN best
  ELSE
    LET hops == {[distance |-> x[1].distance + x[2][3],
                   path |-> Append(x[1].path,
                                   IF x[2][1] = Last(x[1].path) THEN x[2][2] ELSE x[2][1])] :
                    x \in {y \in best \X Edges :
                             Last(y[1].path) \in {y[2][1], y[2][2]}}}
        all == best \cup hops
        reached == {Last(r.path) : r \in all}
    IN Relax({CHOOSE r \in all :
                /\ Last(r.path) = v
                /\ \A q \in all : Last(q.path) = v => r.distance <= q.distance :
              v \in reached},
             rounds - 1)

\* new GPS(detectiveLevel, battleOfFortuneholdCompleted): the quickest path
\* of every pair of nodes
GPS ==
  UNION {Relax({[distance |-> 0, path |-> <<from>>]}, Cardinality(Nodes) - 1) :
           from \in Nodes}

\* gps.distance(from, to): { distance, path }
GpsDistance(gps, from, to) ==
  IF \E r \in gps : r.path[1] = from /\ Last(r.path) = to
  THEN CHOOSE r \in gps : r.path[1] = from /\ Last(r.path) = to
  ELSE NoPath

Action(type, item, location, distance) ==
  [type |-> type, item |-> item, location |-> location, distance |-> distance]

RECURSIVE TravelStepsPerHop(_, _, _)
\* a variant that adds the teleport time once per node still ahead
TravelStepsPerHop(path, i, currentDistance) ==
  IF i > Len(path) - 1 THEN <<>>
  ELSE (IF path[i] \in {CRENOPOLIS_MARKET, CRENOPOLIS_OUTSKIRTS}
        THEN <<Action("teleport", None, path[i],
                      currentDistance + teleportTime(path[i]) * (Len(path) - i))>>
        ELSE <<>>)
       \o TravelStepsPerHop(path, i + 1, currentDistance)

RECURSIVE TravelSteps(_, _, _)
\* the teleport actions of the inner nodes of a path, from index i on
TravelSteps(path, i, currentDistance) ==
  IF i > Len(path) - 1 THEN <<>>
  ELSE (IF path[i] \in {CRENOPOLIS_MARKET, CRENOPOLIS_OUTSKIRTS}
        THEN <<Action("teleport", None, path[i], currentDistance + teleportTime(path[i]))>>
        ELSE <<>>)
       \o TravelSteps(path, i + 1, currentDistance)

\* #addTravelSteps(gps, actions, startNode, endNode)
addTravelSteps(gps, actions, startNode, endNode) ==
  LET path == GpsDistance(gps, startNode, endNode).path
      currentDistance == IF Len(actions) > 0 THEN actions[Len(actions)].distance ELSE 0
  IN IF Len(path) < 2 THEN actions
     ELSE actions \o TravelSteps(path, 2, currentDistance)

InProgress(bountyStates) ==
  Cardinality({i \in 1..Len(bountyStates) : bountyStates[i] = IN_PROGRESS})

\* a variant that stops buying only when the inventory is over full
canPurchaseMoreItemsOverfull(bountyStates) ==
  inventorySpace - UnitSpace * InProgress(bountyStates) >= 0

\* #canPurchaseMoreItems(bountyStates)
canPurchaseMoreItems(bountyStates) ==
  inventorySpace - UnitSpace * InProgress(bountyStates) >= UnitSpace

\* #deliveriesCompleted(bountyStates)
deliveriesCompleted(bountyStates) ==
  \A i \in 1..Len(bountyStates) : bountyStates[i] = COMPLETED

\* bountyStates[i] = status
SetStatus(bountyStates, i, status) ==
  [j \in 1..Len(bountyStates) |-> IF j = i THEN status ELSE bountyStates[j]]

\* the state of one loop iteration: what the sell and the buy loops update
RECURSIVE SellLoop(_, _, _, _, _)
SellLoop(bounties, gps, e, i, v) ==
  IF i > Len(bounties) THEN v
  ELSE IF e.currentNode # BuyerNode(bounties[i]) \/ v.bountyStates[i] # IN_PROGRESS
       THEN SellLoop(bounties, gps, e, i + 1, v)
       ELSE
         LET travelled == IF v.numItemsBought + v.numItemsSold = 0
                          THEN addTravelSteps(gps, v.actions, e.previousNode, e.currentNode)
                          ELSE v.actions
             distance == v.distance + timeToSell
         IN SellLoop(bounties, gps, e, i + 1,
                     [distance |-> distance,
                      numItemsBought |-> v.numItemsBought,
                      numItemsSold |-> v.numItemsSold + 1,
                      bountyStates |-> SetStatus(v.bountyStates, i, COMPLETED),
                      actions |-> Append(travelled,
                                         Action("sell", bounties[i],
                                                BuyerNode(bounties[i]), distance))])

RECURSIVE BuyLoopEachCharged(_, _, _, _, _)
\* a variant that charges timeToBuy for every item bought
BuyLoopEachCharged(bounties, gps, e, i, v) ==
  IF i > Len(bounties) THEN v
  ELSE IF ~canPurchaseMoreItems(v.bountyStates) THEN v
  ELSE IF e.currentNode # SellerNode(bounties[i]) \/ v.bountyStates[i] # NOT_STARTED
       THEN BuyLoopEachCharged(bounties, gps, e, i + 1, v)
       ELSE
         LET travelled == IF v.numItemsBought + v.numItemsSold = 0
                          THEN addTravelSteps(gps, v.actions, e.previousNode, e.currentNode)
                          ELSE v.actions
             distance == v.distance + timeToBuy
         IN BuyLoopEachCharged(bounties, gps, e, i + 1,
                    [distance |-> distance,
                     numItemsBought |-> v.numItemsBought + 1,
                     numItemsSold |-> v.numItemsSold,
                     bountyStates |-> SetStatus(v.bountyStates, i, IN_PROGRESS),
                     actions |-> Append(travelled,
                                        Action("buy", bounties[i],
                                               SellerNode(bounties[i]), distance))])

RECURSIVE BuyLoop(_, _, _, _, _)
BuyLoop(bounties, gps, e, i, v) ==
  IF i > Len(bounties) THEN v
  ELSE IF ~canPurchaseMoreItems(v.bountyStates) THEN v
  ELSE IF e.currentNode # SellerNode(bounties[i]) \/ v.bountyStates[i] # NOT_STARTED
       THEN BuyLoop(bounties, gps, e, i + 1, v)
       ELSE
         LET travelled == IF v.numItemsBought + v.numItemsSold = 0
                          THEN addTravelSteps(gps, v.actions, e.previousNode, e.currentNode)
                          ELSE v.actions
             distance == IF v.numItemsBought = 0 THEN v.distance + timeToBuy
                         ELSE v.distance
         IN BuyLoop(bounties, gps, e, i + 1,
                    [distance |-> distance,
                     numItemsBought |-> v.numItemsBought + 1,
                     numItemsSold |-> v.numItemsSold,
                     bountyStates |-> SetStatus(v.bountyStates, i, IN_PROGRESS),
                     actions |-> Append(travelled,
                                        Action("buy", bounties[i],
                                               SellerNode(bounties[i]), distance))])

\* a variant that buys before it sells
VisitBuyFirst(bounties, gps, e) ==
  SellLoop(bounties, gps, e, 1,
    BuyLoop(bounties, gps, e, 1,
      [distance |-> e.distance, numItemsBought |-> 0, numItemsSold |-> 0,
       bountyStates |-> e.bountyStates, actions |-> e.actions]))

\* lines 226-289: sell everything that can be sold at the current node, then
\* buy everything that can be bought
Visit(bounties, gps, e) ==
  BuyLoop(bounties, gps, e, 1,
    SellLoop(bounties, gps, e, 1,
      [distance |-> e.distance, numItemsBought |-> 0, numItemsSold |-> 0,
       bountyStates |-> e.bountyStates, actions |-> e.actions]))

\* lines 297-304: the way back to the board
WithReturn(gps, e, v, roundTrip) ==
  IF roundTrip /\ e.currentNode # bountyBoard
  THEN LET distance == v.distance + GpsDistance(gps, e.currentNode, bountyBoard).distance
       IN [distance |-> distance,
           actions |-> Append(addTravelSteps(gps, v.actions, e.currentNode, bountyBoard),
                              Action("return", None, bountyBoard, distance))]
  ELSE [distance |-> v.distance, actions |-> v.actions]

RECURSIVE NextEntries(_, _, _, _, _, _, _)
\* lines 320-340 and 344-364: one entry per task in the given status whose
\* arrival time is under bestDistance
NextEntries(bounties, gps, e, v, status, bestDistance, i) ==
  IF i > Len(bounties) THEN <<>>
  ELSE
    LET nextNode == IF status = NOT_STARTED THEN SellerNode(bounties[i])
                    ELSE BuyerNode(bounties[i])
        newDistance == v.distance + GpsDistance(gps, e.currentNode, nextNode).distance
    IN (IF v.bountyStates[i] = status /\ newDistance < bestDistance
        THEN <<[distance |-> newDistance, previousNode |-> e.currentNode,
                currentNode |-> nextNode, bountyStates |-> v.bountyStates,
                actions |-> v.actions]>>
        ELSE <<>>)
       \o NextEntries(bounties, gps, e, v, status, bestDistance, i + 1)

\* the entries enqueued at the end of an iteration
Successors(bounties, gps, e, v, bestDistance) ==
  (IF canPurchaseMoreItems(v.bountyStates)
   THEN NextEntries(bounties, gps, e, v, NOT_STARTED, bestDistance, 1)
   ELSE <<>>)
  \o NextEntries(bounties, gps, e, v, IN_PROGRESS, bestDistance, 1)

\* pq.dequeue() hands out an entry of least distance.  The queue is kept in
\* the order of the enqueue calls; which of several entries of the same
\* distance the heap hands out first is fixed by the policy: the oldest or
\* the newest.  Entry i leaves the queue before entry j:
Before(pq, policy, i, j) ==
  \/ pq[i].distance < pq[j].distance
  \/ /\ pq[i].distance = pq[j].distance
     /\ IF policy = "oldest" THEN i < j ELSE i > j

\* a variant of the visited test that discards nothing
SeenNever(visited, e) == FALSE

\* visited.has(key) && visited.get(key) <= distance
Seen(visited, e) ==
  \E r \in visited : /\ r.node = e.currentNode
                     /\ r.bountyStates = e.bountyStates
                     /\ r.distance <= e.distance

\* visited.set(key, distance)
Mark(visited, e) ==
  {r \in visited : ~(r.node = e.currentNode /\ r.bountyStates = e.bountyStates)}
    \cup {[node |-> e.currentNode, bountyStates |-> e.bountyStates,
           distance |-> e.distance]}

\* a variant that returns the first complete route whatever its time
UnderAlways(distance, bestDistance) == TRUE

\* distance < bestDistance, the test before the return statements
Under(distance, bestDistance) == distance < bestDistance

RECURSIVE SearchLoop(_, _, _, _, _, _, _, _)
\* the while loop of findBestRoute, one visited entry per round: the entries
\* that leave the queue before it are the ones the two continue statements
\* at the head of the loop skip.  explored collects the status lists of the
\* iterations, left is the queue when the function returns
SearchLoop(bounties, gps, bestDistance, roundTrip, policy, pq, visited, explored) ==
  LET live == {i \in 1..Len(pq) :
                 ~(pq[i].distance >= bestDistance \/ Seen(visited, pq[i]))}
  IN IF live = {}
     THEN [found |-> FALSE, actions |-> <<>>, distance |-> 0, explored |-> explored,
           left |-> <<>>, last |-> bountyBoard]
     ELSE
       LET k == CHOOSE i \in live : \A j \in live \ {i} : Before(pq, policy, i, j)
           e == pq[k]
           rest == PickSeq(pq, {j \in 1..Len(pq) : Before(pq, policy, k, j)}, 1)
           v == Visit(bounties, gps, e)
           seen == Mark(visited, e)
           known == explored \cup {v.bountyStates}
           final == WithReturn(gps, e, v, roundTrip)
       IN IF v.distance >= bestDistance
          THEN SearchLoop(bounties, gps, bestDistance, roundTrip, policy, rest, seen, known)
          ELSE IF deliveriesCompleted(v.bountyStates) /\ Under(final.distance, bestDistance)
          THEN [found |-> TRUE, actions |-> final.actions, distance |-> final.distance,
                explored |-> known, left |-> rest, last |-> e.currentNode]
          ELSE SearchLoop(bounties, gps, bestDistance, roundTrip, policy,
                          rest \o Successors(bounties, gps, e, v, bestDistance),
                          seen, known)

\* findBestRoute(bounties, gps, threshold, roundTrip)
findBestRoute(bounties, gps, threshold, roundTrip, policy) ==
  SearchLoop(bounties, gps, threshold, roundTrip, policy,
             <<[distance |-> 0, previousNode |-> None, currentNode |-> bountyBoard,
                bountyStates |-> [i \in 1..Len(bounties) |-> NOT_STARTED],
                actions |-> <<>>]>>,
             {}, {})

\* the least total time over every order of stops that the search rules
\* allow from the entry on, the way back included when roundTrip is set
RECURSIVE LeastTotalFrom(_, _, _, _)
LeastTotalFrom(bounties, gps, e, roundTrip) ==
  LET v == Visit(bounties, gps, e)
      next == Successors(bounties, gps, e, v, MAX_SAFE_INTEGER)
      totals == {LeastTotalFrom(bounties, gps, s, roundTrip) :
                   s \in {next[i] : i \in 1..Len(next)}}
  IN IF deliveriesCompleted(v.bountyStates)
     THEN WithReturn(gps, e, v, roundTrip).distance
     ELSE CHOOSE t \in totals : \A u \in totals : t <= u

LeastTotal(bounties, gps, roundTrip) ==
  LeastTotalFrom(bounties, gps,
                 [distance |-> 0, previousNode |-> None, currentNode |-> bountyBoard,
                  bountyStates |-> [i \in 1..Len(bounties) |-> NOT_STARTED],
                  actions |-> <<>>],
                 roundTrip)

(***************************************************************************)
(* findBestBounties                                                        *)
(***************************************************************************)
\* Infinity, as far as the evaluation count is concerned
Infinity == MAX_SAFE_INTEGER

RECURSIVE SlotCombinations(_, _)
\* the k-subsets of the slots of the list, in the order of the list
SlotCombinations(items, k) ==
  IF k = 0 THEN <<<<>>>>
  ELSE IF Len(items) < k THEN <<>>
  ELSE LET with == SlotCombinations(Tail(items), k - 1)
       IN [i \in 1..Len(with) |-> <<Head(items)>> \o with[i]]
          \o SlotCombinations(Tail(items), k)

\* two selections with the same number of tasks of every type
SameContent(a, b) ==
  \A x \in {a[i] : i \in 1..Len(a)} \cup {b[i] : i \in 1..Len(b)} :
    Cardinality({i \in 1..Len(a) : a[i] = x}) = Cardinality({i \in 1..Len(b) : b[i] = x})

RECURSIVE DistinctByContent(_)
\* the first of the selections of every content
DistinctByContent(combos) ==
  IF combos = <<>> THEN <<>>
  ELSE LET front == DistinctByContent(SubSeq(combos, 1, Len(combos) - 1))
           x == combos[Len(combos)]
       IN IF \E i \in 1..Len(front) : SameContent(front[i], x) THEN front
          ELSE Append(front, x)

\* combinations(items, k): every distinct k-subset of the list, duplicates
\* being separate slots for the enumeration and the subsets compared by content
combinations(items, k) == DistinctByContent(SlotCombinations(items, k))

\* #estimateMinDistance(combo, gps)
estimateMinDistance(combo) ==
  LET uniqueLocations == {SellerNode(combo[i]) : i \in 1..Len(combo)}
                           \cup {BuyerNode(combo[i]) : i \in 1..Len(combo)}
  IN Cardinality(uniqueLocations) * 10 + Len(combo) * (timeToBuy + timeToSell)

\* a.kp / a.distance > b.kp / b.distance, for positive times
MoreEfficient(aKp, aDistance, bKp, bDistance) == aKp * bDistance > bKp * aDistance

RECURSIVE SortByEstimate(_)
\* comboData.sort((a, b) => b.estimatedEfficiency - a.estimatedEfficiency),
\* a stable sort
SortByEstimate(data) ==
  IF data = <<>> THEN <<>>
  ELSE LET sorted == SortByEstimate(SubSeq(data, 1, Len(data) - 1))
           x == data[Len(data)]
           k == Cardinality({i \in 1..Len(sorted) :
                               ~MoreEfficient(x.kp, x.estimatedDistance,
                                              sorted[i].kp, sorted[i].estimatedDistance)})
       IN SubSeq(sorted, 1, k) \o <<x>> \o SubSeq(sorted, k + 1, Len(sorted))

RECURSIVE SortLeastEfficientFirst(_)
\* a variant that ranks the least efficient result first
SortLeastEfficientFirst(results) ==
  IF results = <<>> THEN <<>>
  ELSE LET sorted == SortLeastEfficientFirst(SubSeq(results, 1, Len(results) - 1))
           x == results[Len(results)]
           k == Cardinality({i \in 1..Len(sorted) :
                               ~MoreEfficient(sorted[i].kp, sorted[i].distance,
                                              x.kp, x.distance)})
       IN SubSeq(sorted, 1, k) \o <<x>> \o SubSeq(sorted, k + 1, Len(sorted))

RECURSIVE SortByEfficiency(_)
\* results.sort((a, b) => b.kp / b.distance - a.kp / a.distance), a stable sort
SortByEfficiency(results) ==
  IF results = <<>> THEN <<>>
  ELSE LET sorted == SortByEfficiency(SubSeq(results, 1, Len(results) - 1))
           x == results[Len(results)]
           k == Cardinality({i \in 1..Len(sorted) :
                               ~MoreEfficient(x.kp, x.distance,
                                              sorted[i].kp, sorted[i].distance)})
       IN SubSeq(sorted, 1, k) \o <<x>> \o SubSeq(sorted, k + 1, Len(sorted))

\* a variant that searches every combination without a time budget
ThresholdUnbounded(results, numResults) == MAX_SAFE_INTEGER

\* results.length >= numResults ? results[results.length - 1].distance
\*                              : Number.MAX_SAFE_INTEGER
Threshold(results, numResults) ==
  IF Len(results) >= numResults THEN results[Len(results)].distance
  ELSE MAX_SAFE_INTEGER

\* results.push({ bounties: combo, actions, distance, kp })
PushResult(results, c, route) ==
  Append(results, [bounties |-> c.combo, actions |-> route.actions,
                   distance |-> route.distance, kp |-> c.kp])

\* if (results.length > numResults) { results.sort(...); results = results.slice(0, numResults) }
KeepBest(pushed, numResults) ==
  IF Len(pushed) > numResults
  THEN SubSeq(SortByEfficiency(pushed), 1, numResults)
  ELSE pushed

\* if (!result) continue; otherwise the push and the trim
ResultsAfter(results, c, route, numResults) ==
  IF route.found THEN KeepBest(PushResult(results, c, route), numResults) ELSE results

\* one call of findBestRoute made by the loop, with its time threshold
PlannedCall(c, route, threshold) ==
  [combo |-> c.combo, kp |-> c.kp, found |-> route.found, distance |-> route.distance,
   threshold |-> threshold]

\* what the loop did from a candidate on: the call made for it, then the rest
LoopContinued(call1, rest) ==
  [results |-> rest.results, evaluated |-> rest.evaluated, skipped |-> rest.skipped,
   stop |-> rest.stop, held |-> rest.held, next |-> rest.next,
   planned |-> <<call1>> \o rest.planned]

RECURSIVE EvaluateLoop(_, _, _, _, _, _, _, _)
RECURSIVE PlanCandidate(_, _, _, _, _, _, _, _, _)
\* the body of the loop past the two breaks: evaluated++, the call of
\* findBestRoute (route), the push, and the following iterations
PlanCandidate(comboData, gps, roundTrip, numResults, pruningOptions, policy, results, evaluated, route) ==
  LoopContinued(
    PlannedCall(Head(comboData), route, Threshold(results, numResults)),
    EvaluateLoop(Tail(comboData), gps, roundTrip, numResults, pruningOptions, policy,
                 ResultsAfter(results, Head(comboData), route, numResults),
                 evaluated + 1))

\* the for loop over comboData; pruningThreshold is in hundredths.  The value
\* is the results at the end of the loop, the counters of the [perf] line,
\* the break taken if any (with the results held and the candidate at hand),
\* and the calls of findBestRoute in order
EvaluateLoop(comboData, gps, roundTrip, numResults, pruningOptions, policy, results, evaluated) ==
  IF comboData = <<>>
  THEN [results |-> results, evaluated |-> evaluated, skipped |-> 0, stop |-> "none",
        held |-> results, next |-> NoCandidate, planned |-> <<>>]
  ELSE
    LET c == Head(comboData)
        worst == results[Len(results)]
        pruned ==
          /\ pruningOptions.pruningThreshold < 100
          /\ Len(results) >= numResults
          /\ c.kp * worst.distance * 100
               < worst.kp * pruningOptions.pruningThreshold * c.estimatedDistance
        enough ==
          /\ pruningOptions.maxEvaluations < Infinity
          /\ evaluated >= pruningOptions.maxEvaluations
          /\ Len(results) >= numResults
    IN IF pruned \/ enough
       THEN [results |-> results, evaluated |-> evaluated, skipped |-> Len(comboData),
             stop |-> IF pruned THEN "pruned" ELSE "enough",
             held |-> results, next |-> c, planned |-> <<>>]
       ELSE PlanCandidate(comboData, gps, roundTrip, numResults, pruningOptions, policy,
                          results, evaluated,
                          findBestRoute(c.combo, gps, Threshold(results, numResults),
                                        roundTrip, policy))

\* combinations of the size Math.min(bounties.length, 6), with their reward
\* and their estimated time
ComboData(bounties) ==
  LET combos == combinations(bounties, Min(Len(bounties), MaxComboSize))
  IN [i \in 1..Len(combos) |->
        [combo |-> combos[i], kp |-> SumKp(combos[i]),
         estimatedDistance |-> estimateMinDistance(combos[i])]]

\* the final results.sort(...) and what the [perf] line reports of the loop
SelectorOutcome(loop, total) ==
  [results |-> SortByEfficiency(loop.results),
   perf |-> [evaluated |-> loop.evaluated, skipped |-> loop.skipped, total |-> total,
             stop |-> loop.stop, held |-> loop.held, next |-> loop.next,
             planned |-> loop.planned]]

\* findBestBounties(bounties, detectiveLevel, battleOfFortuneholdCompleted,
\*                  roundTrip, numResults, pruningOptions)
\* The value holds the returned list and, next to it, what the [perf] line
\* reports of the loop.  maxCombinations is read from pruningOptions and, but
\* for a log line, used nowhere.
findBestBounties(bounties, roundTrip, numResults, pruningOptions, policy) ==
  SelectorOutcome(
    EvaluateLoop(SortByEstimate(ComboData(bounties)), GPS, roundTrip, numResults,
                 pruningOptions, policy, <<>>, 0),
    Len(ComboData(bounties)))

\* the reference of src/tests/test-performance.js: every combination is
\* planned without a time budget, in the order of their reward, and the
\* first of the most efficient ones is kept
RECURSIVE SortByKp(_)
SortByKp(data) ==
  IF data = <<>> THEN <<>>
  ELSE LET sorted == SortByKp(SubSeq(data, 1, Len(data) - 1))
           x == data[Len(data)]
           k == Cardinality({i \in 1..Len(sorted) : sorted[i].kp >= x.kp})
       IN SubSeq(sorted, 1, k) \o <<x>> \o SubSeq(sorted, k + 1, Len(sorted))

NoResult == [bounties |-> <<>>, actions |-> <<>>, distance |-> 0, kp |-> 0]

RECURSIVE ExhaustiveLoop(_, _, _, _, _)
ExhaustiveLoop(comboData, gps, roundTrip, policy, bestResult) ==
  IF comboData = <<>> THEN bestResult
  ELSE
    LET c == Head(comboData)
        found == findBestRoute(c.combo, gps, MAX_SAFE_INTEGER, roundTrip, policy)
        better == /\ found.found
                  /\ \/ bestResult = NoResult /\ c.kp > 0
                     \/ /\ bestResult # NoResult
                        /\ MoreEfficient(c.kp, found.distance,
                                         bestResult.kp, bestResult.distance)
    IN ExhaustiveLoop(Tail(comboData), gps, roundTrip, policy,
                      IF better
                      THEN [bounties |-> c.combo, actions |-> found.actions,
                            distance |-> found.distance, kp |-> c.kp]
                      ELSE bestResult)

\* findBestBountiesExhaustive(testBounties, detectiveLevel,
\*                            battleOfFortuneholdCompleted, roundTrip)
findBestBountiesExhaustive(testBounties, roundTrip, policy) ==
  LET gps == GPS
  IN ExhaustiveLoop(SortByKp(ComboData(testBounties)), gps, roundTrip, policy, NoResult)

(***************************************************************************)
(* Calls of the planner: the arguments are drawn when the call is made,    *)
(* and one step computes what it returns.                                  *)
(***************************************************************************)
mainVars ==
  <<regions, routeTimeOf, now, ticks, loopAwake, lastOpen, activeBounties,
    boardBounties, prevActiveBounties, activeDrops, boardPickups, steps, kp,
    distanceSeconds, stepIdx, prevOptimalBounties, prevAllBountiesSignature,
    prevBoardOpenSignature, inFlightFind, launchedAtLeastOnce, recentActiveAdds,
    forceOptimal, nextId, pending, workerAlive, appearedAt, lastAccepted, ev>>

\* the task lists of at most n tasks
TaskLists(n) == UNION {[1..k -> RouteKeys] : k \in 1..n}
SelectorLists(n) == UNION {[1..k -> SelectorKeys] : k \in 1..n}

Thresholds ==
  {MAX_SAFE_INTEGER} \cup {ThresholdStepSeconds * k : k \in 1..MaxThresholdSteps}

Policies == {"oldest", "newest"}

\* forceOptimal ? { maxEvaluations: Infinity, pruningThreshold: 1.0 }
\*              : { maxEvaluations: 150, pruningThreshold: 0.95 }
ExhaustiveOptions ==
  [maxCombinations |-> Infinity, maxEvaluations |-> Infinity, pruningThreshold |-> 100]
PrunedOptions ==
  [maxCombinations |-> MaxCombinations, maxEvaluations |-> MaxEvaluations,
   pruningThreshold |-> 95]
\* a caller that bounds the combinations only
CappedOptions ==
  [maxCombinations |-> MaxCombinations, maxEvaluations |-> Infinity,
   pruningThreshold |-> 100]

RouteCalls ==
  {[NoCall EXCEPT !.fn = "findBestRoute", !.bounties = b, !.threshold = t,
                  !.roundTrip = r, !.policy = p] :
     b \in TaskLists(MaxTasks), t \in Thresholds, r \in BOOLEAN, p \in Policies}

BountiesCalls ==
  {[NoCall EXCEPT !.fn = "findBestBounties", !.bounties = b, !.roundTrip = r,
                  !.numResults = n, !.pruningOptions = o, !.policy = p] :
     b \in SelectorLists(MaxAllBounties), r \in BOOLEAN, n \in 1..MaxResults,
     o \in {ExhaustiveOptions, PrunedOptions, CappedOptions}, p \in Policies}

InitPlanner ==
  /\ regions = [active |-> MaxActive, board |-> MaxBoard]
  /\ Constructed
  /\ routeTimeOf = [CAVIAR |-> 10, SOAP |-> 20]
  /\ call \in RouteCalls \cup BountiesCalls
  /\ returnedRoute = NoRoute
  /\ returnedResults = <<>>
  /\ perf = NoPerf
  /\ HostIdle

CallFindBestRoute ==
  /\ call.fn = "findBestRoute"
  /\ ~call.done
  /\ returnedRoute' = findBestRoute(call.bounties, GPS, call.threshold, call.roundTrip,
                                    call.policy)
  /\ call' = [call EXCEPT !.done = TRUE]
  /\ UNCHANGED <<returnedResults, perf, mainVars, hostVars>>

CallFindBestBounties ==
  /\ call.fn = "findBestBounties"
  /\ ~call.done
  /\ \E returned \in {findBestBounties(call.bounties, call.roundTrip, call.numResults,
                                        call.pruningOptions, call.policy)} :
       /\ returnedResults' = returned.results
       /\ perf' = returned.perf
  /\ call' = [call EXCEPT !.done = TRUE]
  /\ UNCHANGED <<returnedRoute, mainVars, hostVars>>

NextPlanner ==
  \/ CallFindBestRoute
  \/ CallFindBestBounties

SpecPlanner == InitPlanner /\ [][NextPlanner]_vars

(***************************************************************************)
(* PathfinderWorker on its own: findBest calls with their timers, the      *)
(* message, error and exit handlers of the constructor, and a clock in     *)
(* units of the timers.  A timer that is due fires before the clock moves  *)
(* on.                                                                     *)
(***************************************************************************)
MaxCalls == 2
MaxTimeoutMs == 2
MaxClock == 3

\* a promise keeps its first settlement: resolve and reject on a settled
\* promise do nothing
Settle(state, outcome) == IF state = "pending" THEN outcome ELSE state

\* a variant of the map whose delete removes nothing
DeleteNothing(map, id) == map

\* this.pending.delete(id)
Delete(map, id) == map \ {id}

\* basePromise is settled by a handler: wrapped follows it through
\* basePromise.then(resolve, reject), and the finally of findBest clears the
\* timer
BaseSettled(c, outcome, error) ==
  [c EXCEPT !.base = Settle(c.base, outcome),
            !.wrapped = Settle(c.wrapped, outcome),
            !.error = IF c.wrapped = "pending" THEN error ELSE c.error,
            !.settledAt = IF c.wrapped = "pending" THEN client.clock ELSE c.settledAt,
            !.settles = IF c.wrapped = "pending" THEN c.settles + 1 ELSE c.settles,
            !.timer = IF c.timer = "armed" THEN "cleared" ELSE c.timer]

\* findBest(args, timeoutMs): the request joins the pending map, the message
\* is posted (a thread that has ended receives nothing), the timer is armed
FindBest ==
  \E timeoutMs \in 1..MaxTimeoutMs :
    /\ client.nextId <= MaxCalls
    /\ client.clock + timeoutMs <= MaxClock
    /\ client' =
         [client EXCEPT
            !.nextId = client.nextId + 1,
            !.pending = client.pending \cup {client.nextId},
            !.posted = IF client.thread = "running"
                       THEN Append(client.posted, client.nextId) ELSE client.posted,
            !.calls = Append(client.calls,
                             [timeoutMs |-> timeoutMs, startedAt |-> client.clock,
                              timer |-> "armed", base |-> "pending",
                              wrapped |-> "pending", error |-> "none",
                              settledAt |-> 0, settles |-> 0]),
            !.last = [op |-> "findBest", id |-> client.nextId, settled |-> FALSE]]
    /\ UNCHANGED <<mainVars, plannerVars, utility, probe, mapper>>

\* worker.on('message'): the thread answers the oldest request it has not
\* answered, with ok:true or ok:false, or sends a message with an id that
\* no request has (id 0)
OnMessage ==
  \E id \in (IF client.posted = <<>> THEN {} ELSE {Head(client.posted)}) \cup {0},
     ok \in BOOLEAN :
    /\ client.thread = "running"
    /\ LET known == id \in client.pending
       IN client' =
            [client EXCEPT
               !.posted = IF id = 0 THEN client.posted ELSE Tail(client.posted),
               !.pending = IF known THEN Delete(client.pending, id) ELSE client.pending,
               !.calls = IF known
                         THEN [client.calls EXCEPT
                                 ![id] = BaseSettled(client.calls[id],
                                                     IF ok THEN "fulfilled" ELSE "rejected",
                                                     IF ok THEN "none" ELSE "reply")]
                         ELSE client.calls,
               !.last = [op |-> "message", id |-> id, settled |-> known]]
    /\ UNCHANGED <<mainVars, plannerVars, utility, probe, mapper>>

\* every pending request is rejected and deleted
RejectAll(calls, requests) ==
  [id \in 1..Len(calls) |->
     IF id \in requests THEN BaseSettled(calls[id], "rejected", "thread") ELSE calls[id]]

\* worker.on('error')
OnError ==
  /\ client.thread = "running"
  /\ client' = [client EXCEPT
                  !.thread = "failed",
                  !.posted = <<>>,
                  !.calls = RejectAll(client.calls, client.pending),
                  !.pending = {},
                  !.last = [op |-> "error", id |-> 0, settled |-> client.pending # {}]]
  /\ UNCHANGED <<mainVars, plannerVars, utility, probe, mapper>>

\* worker.on('exit'): a thread that failed exits with a code other than 0
OnExit ==
  \E code \in {0, 1} :
    /\ client.thread \in {"running", "failed"}
    /\ client.thread = "failed" => code # 0
    /\ client' = [client EXCEPT
                    !.thread = "exited",
                    !.posted = <<>>,
                    !.calls = IF code # 0 THEN RejectAll(client.calls, client.pending)
                              ELSE client.calls,
                    !.pending = IF code # 0 THEN {} ELSE client.pending,
                    !.last = [op |-> "exit", id |-> code,
                              settled |-> code # 0 /\ client.pending # {}]]
    /\ UNCHANGED <<mainVars, plannerVars, utility, probe, mapper>>

\* the timer of a call is due
Due(c) == c.timer = "armed" /\ client.clock - c.startedAt >= c.timeoutMs

\* the setTimeout callback of findBest
TimerFires ==
  \E id \in 1..Len(client.calls) :
    LET c == client.calls[id]
        known == id \in client.pending
    IN /\ Due(c)
       /\ client' =
            [client EXCEPT
               !.pending = IF known THEN Delete(client.pending, id) ELSE client.pending,
               !.calls = [client.calls EXCEPT
                            ![id] = [c EXCEPT
                                       !.timer = "fired",
                                       !.base = IF known THEN Settle(c.base, "rejected")
                                                ELSE c.base,
                                       !.wrapped = Settle(c.wrapped, "rejected"),
                                       !.error = IF c.wrapped = "pending" THEN "timeout"
                                                 ELSE c.error,
                                       !.settledAt = IF c.wrapped = "pending"
                                                     THEN client.clock ELSE c.settledAt,
                                       !.settles = IF c.wrapped = "pending"
                                                   THEN c.settles + 1 ELSE c.settles]],
               !.last = [op |-> "timer", id |-> id, settled |-> c.wrapped = "pending"]]
       /\ UNCHANGED <<mainVars, plannerVars, utility, probe, mapper>>

\* time passes while no timer is due
ClockTick ==
  /\ client.clock < MaxClock
  /\ \A id \in 1..Len(client.calls) : ~Due(client.calls[id])
  /\ client' = [client EXCEPT !.clock = client.clock + 1,
                              !.last = [op |-> "tick", id |-> 0, settled |-> FALSE]]
  /\ UNCHANGED <<mainVars, plannerVars, utility, probe, mapper>>

InitFindBest ==
  /\ regions = [active |-> MaxActive, board |-> MaxBoard]
  /\ Constructed
  /\ routeTimeOf = [CAVIAR |-> 10, SOAP |-> 20]
  /\ PlannerIdle
  /\ HostIdle

NextFindBest ==
  \/ FindBest
  \/ OnMessage
  \/ OnError
  \/ OnExit
  \/ TimerFires
  \/ ClockTick

\* the event loop runs a timer that is due, and time passes
SpecFindBest ==
  /\ InitFindBest
  /\ [][NextFindBest]_vars
  /\ WF_vars(TimerFires)
  /\ WF_vars(ClockTick)

(***************************************************************************)
(* The utility process of pathfinder-utility-process.ts: the parent posts  *)
(* messages, the handler takes them one at a time and posts its replies.   *)
(* gps.ts is not part of the sources: a call into it may throw.            *)
(***************************************************************************)
MaxMessages == 2

UnknownTask == [combo |-> <<"UNKNOWN">>, kp |-> 0, estimatedDistance |-> 1]
KnownTask(task) == \A i \in 1..Len(task.combo) : task.combo[i] \in SelectorKeys

\* the chunks a parent sends: the candidates of a task list in the order of
\* their estimated efficiency, the same with a task of no known type in
\* front or in the middle, and a message without tasks
ChunkTasks ==
  LET candidates == SortByEstimate(ComboData(<<"CAVIAR", "SOAP", "TIN_POCKET_WATCH">>))
  IN {[iterable |-> TRUE, list |-> candidates],
      [iterable |-> TRUE,
       list |-> SortByEstimate(ComboData(<<"CAVIAR", "CAVIAR", "SOAP">>))],
      [iterable |-> TRUE,
       list |-> SortByEstimate(ComboData(<<"SOAP", "SOAP", "TIN_POCKET_WATCH",
                                           "TIN_POCKET_WATCH">>))],
      [iterable |-> TRUE, list |-> <<UnknownTask>> \o candidates],
      [iterable |-> TRUE, list |-> <<candidates[1], UnknownTask, candidates[2]>>],
      [iterable |-> FALSE, list |-> <<>>]}

ChunkThresholds == {95, 100}

\* the messages a parent posts, but for their id
Messages ==
  {[type |-> "warmup", tasks |-> [iterable |-> FALSE, list |-> <<>>],
    roundTrip |-> TRUE, numResults |-> 1, pruningThreshold |-> 100],
   [type |-> "shutdown", tasks |-> [iterable |-> FALSE, list |-> <<>>],
    roundTrip |-> TRUE, numResults |-> 1, pruningThreshold |-> 100]}
  \cup {[type |-> "evaluateChunk", tasks |-> t, roundTrip |-> r, numResults |-> n,
         pruningThreshold |-> h] :
          t \in ChunkTasks, r \in BOOLEAN, n \in 1..MaxResults, h \in ChunkThresholds}

\* `${detectiveLevel}:${battleOfFortuneholdCompleted}`
GpsKey == "500:true"

\* the tasks of a chunk before the first one of no known type
RECURSIVE KnownPrefix(_)
KnownPrefix(list) ==
  IF list = <<>> \/ ~KnownTask(Head(list)) THEN <<>>
  ELSE <<Head(list)>> \o KnownPrefix(Tail(list))

\* what the handler makes of the loop: the exception, or the sorted results
ChunkOutcome(msg, known, loop) ==
  [threw |-> \/ ~msg.tasks.iterable
             \/ Len(known) < Len(msg.tasks.list) /\ loop.stop = "none",
   results |-> SortByEfficiency(loop.results)]

\* if (pruningThreshold < 1.0 && results.length >= numResults) { ... if
\* (task.estimatedEfficiency < worstEfficiency * pruningThreshold) break }
\* with the estimated efficiency of a task as the quotient kp / estimatedDistance
ChunkPruned(task, results, numResults, pruningThreshold) ==
  /\ pruningThreshold < 100
  /\ Len(results) >= numResults
  /\ task.kp * results[Len(results)].distance * 100
       < results[Len(results)].kp * pruningThreshold * task.estimatedDistance

\* a variant that plans every task without a time budget
ChunkThresholdUnbounded(results, numResults) == MAX_SAFE_INTEGER

\* results.length >= numResults ? results[results.length - 1].distance
\*                              : Number.MAX_SAFE_INTEGER
ChunkThreshold(results, numResults) ==
  IF Len(results) >= numResults THEN results[Len(results)].distance
  ELSE MAX_SAFE_INTEGER

\* if (route === null) continue; results.push({ combo, kp, actions, distance });
\* if (results.length > numResults) { results.sort(...); results = results.slice(0, numResults) }
ChunkResultsAfter(results, task, route, numResults) ==
  IF ~route.found THEN results
  ELSE LET pushed == Append(results, [combo |-> task.combo, kp |-> task.kp,
                                      actions |-> route.actions,
                                      distance |-> route.distance])
       IN IF Len(pushed) > numResults
          THEN SubSeq(SortByEfficiency(pushed), 1, numResults)
          ELSE pushed

RECURSIVE ChunkLoop(_, _, _, _, _, _, _, _)
\* the body of the loop from evaluated++ on, for the route that
\* findBestRoute returned, and the following iterations
ChunkPlanned(tasks, gps, roundTrip, numResults, pruningThreshold, policy, results, evaluated, route) ==
  ChunkLoop(Tail(tasks), gps, roundTrip, numResults, pruningThreshold, policy,
            ChunkResultsAfter(results, Head(tasks), route, numResults), evaluated + 1)

\* for (const task of tasks) { ... } of the handler: the results at the end
\* of the loop, the number of routes planned and whether the loop broke off
ChunkLoop(tasks, gps, roundTrip, numResults, pruningThreshold, policy, results, evaluated) ==
  IF tasks = <<>>
  THEN [results |-> results, evaluated |-> evaluated, stop |-> "none"]
  ELSE IF ChunkPruned(Head(tasks), results, numResults, pruningThreshold)
  THEN [results |-> results, evaluated |-> evaluated, stop |-> "pruned"]
  ELSE ChunkPlanned(tasks, gps, roundTrip, numResults, pruningThreshold, policy, results,
                    evaluated,
                    findBestRoute(Head(tasks).combo, gps,
                                  ChunkThreshold(results, numResults), roundTrip, policy))

\* lines 61-95: the loop over the tasks of a chunk and the final sort.
\* findBestRoute throws for a task of no known type (bountyData[bounty] is
\* undefined) when the loop comes to it; `for ... of` throws when the
\* message has no tasks
evaluateChunk(msg, policy) ==
  ChunkOutcome(msg, KnownPrefix(msg.tasks.list),
               ChunkLoop(KnownPrefix(msg.tasks.list), GPS, msg.roundTrip, msg.numResults,
                         msg.pruningThreshold, policy, <<>>, 0))

\* a variant that answers only what it could compute
ReplySuccessOnly(msg, threw, results) ==
  IF threw THEN <<>> ELSE <<[id |-> msg.id, ok |-> TRUE, results |-> results]>>

\* process.parentPort?.postMessage({ id, ok: true, ... }) at the end of the
\* try block, postMessage({ id, ok: false, error }) in the catch block
Reply(msg, threw, results) ==
  IF threw THEN <<[id |-> msg.id, ok |-> FALSE, results |-> <<>>]>>
  ELSE <<[id |-> msg.id, ok |-> TRUE, results |-> results]>>

\* the parent posts a message; its ids count up
PostMessage ==
  \E m \in Messages :
    LET id == Len(utility.handled) + Len(utility.inbox) + 1
    IN /\ id <= MaxMessages
       /\ utility' = [utility EXCEPT
                        !.inbox = Append(utility.inbox,
                                         [id |-> id, type |-> m.type, tasks |-> m.tasks,
                                          roundTrip |-> m.roundTrip,
                                          numResults |-> m.numResults,
                                          pruningThreshold |-> m.pruningThreshold])]
       /\ UNCHANGED <<mainVars, plannerVars, client, probe, mapper>>

\* what the handler does with a message: whether it threw, and its replies
Handling(msg, gpsThrows, policy) ==
  IF msg.type = "evaluateChunk" /\ ~gpsThrows
  THEN evaluateChunk(msg, policy)
  ELSE [threw |-> gpsThrows, results |-> <<>>]

\* process.parentPort.on('message'): one message, from the first line of the
\* handler to its return.  A message of another type is left unanswered.
HandleMessage ==
  /\ utility.inbox # <<>>
  /\ \E gpsThrows \in BOOLEAN, policy \in Policies :
       /\ Head(utility.inbox).type # "evaluateChunk" => policy = "oldest"
       /\ Head(utility.inbox).type \notin {"warmup", "evaluateChunk"} => ~gpsThrows
       /\ \E chunk \in {Handling(Head(utility.inbox), gpsThrows, policy)},
             cached \in (IF Head(utility.inbox).type \notin {"warmup", "evaluateChunk"}
                         THEN {utility.cachedGpsKey}
                         ELSE IF gpsThrows THEN {utility.cachedGpsKey, GpsKey}
                         ELSE {GpsKey}) :
            utility' =
              [utility EXCEPT
                 !.inbox = Tail(utility.inbox),
                 !.cachedGpsKey = cached,
                 !.handled = Append(utility.handled,
                                    [msg |-> Head(utility.inbox), threw |-> chunk.threw,
                                     policy |-> policy]),
                 !.replies = IF Head(utility.inbox).type \in {"warmup", "evaluateChunk"}
                             THEN utility.replies
                                    \o Reply(Head(utility.inbox), chunk.threw, chunk.results)
                             ELSE utility.replies]
  /\ UNCHANGED <<mainVars, plannerVars, client, probe, mapper>>

InitUtility ==
  /\ regions = [active |-> MaxActive, board |-> MaxBoard]
  /\ Constructed
  /\ routeTimeOf = [CAVIAR |-> 10, SOAP |-> 20]
  /\ PlannerIdle
  /\ HostIdle

NextUtility ==
  \/ PostMessage
  \/ HandleMessage

SpecUtility == InitUtility /\ [][NextUtility]_vars

(***************************************************************************)
(* makeAllBountiesSignature on its own: two snapshots are drawn, and one   *)
(* step computes the signature of each as processOCRResultsAsync does.     *)
(***************************************************************************)
Snapshots == [active : [ActiveSlots -> SlotVals], board : [BoardSlots -> SlotVals]]

\* lines 1288-1290: [...Object.values(detectedActive),
\* ...Object.values(detectedBoard)].filter(bounty => bounty !== 'PUMPKIN'),
\* then makeAllBountiesSignature
SignatureOf(snapshot) ==
  makeAllBountiesSignature(
    SelectSeq(Values(snapshot.active) \o Values(snapshot.board), NotPumpkin))

InitSignature ==
  /\ regions = [active |-> MaxActive, board |-> MaxBoard]
  /\ Constructed
  /\ routeTimeOf = [CAVIAR |-> 10, SOAP |-> 20]
  /\ PlannerIdle
  /\ client = NoClient
  /\ utility = NoUtility
  /\ probe \in [first : Snapshots, second : Snapshots, signatures : {<<>>}]
  /\ mapper = NoMapper

ComputeSignatures ==
  /\ probe.signatures = <<>>
  /\ probe' = [probe EXCEPT
                 !.signatures = <<SignatureOf(probe.first), SignatureOf(probe.second)>>]
  /\ UNCHANGED <<mainVars, plannerVars, client, utility, mapper>>

NextSignature == ComputeSignatures

SpecSignature == InitSignature /\ [][NextSignature]_vars

(***************************************************************************)
(* mapWithConcurrency (async.ts): workerCount worker loops share nextIndex *)
(* and the results array.  JavaScript runs one continuation at a time: a   *)
(* worker loop runs from the settlement of the call it awaits to its next  *)
(* await or to its return.  The calls of fn settle in any order, each with *)
(* a value or with an error.                                               *)
(***************************************************************************)
MaxItems == 3
MaxConcurrency == 3

\* the keys handed over by the screenshot tick
RegionKeys == {"activeBountyRegion1", "boardRegion1"}
ItemLists == UNION {[1..k -> RegionKeys] : k \in 0..MaxItems}

\* an empty slot of new Array(items.length)
EmptySlot == <<>>
\* what the promise of fn(item, index) is fulfilled with
fn(item, index) == <<item, index>>

Max(a, b) == IF a > b THEN a ELSE b

\* a variant with one worker loop per item
workerCountPerItem(concurrency, length) == Max(1, length)

\* Math.max(1, Math.min(concurrency, items.length))
workerCount(concurrency, length) == Max(1, Min(concurrency, length))

\* one pass of while (true) { const i = nextIndex++; if (i >= items.length)
\* return; ... await fn(items[i], i) } of worker w, up to the await
workerLoop(m, w) ==
  LET i == m.nextIndex
  IN IF i >= Len(m.items)
     THEN [m EXCEPT !.nextIndex = i + 1,
                    !.workers = [v \in DOMAIN m.workers |->
                                   IF v = w THEN [state |-> "returned", index |-> i]
                                   ELSE m.workers[v]]]
     ELSE [m EXCEPT !.nextIndex = i + 1,
                    !.calls = Append(m.calls, i),
                    !.workers = [v \in DOMAIN m.workers |->
                                   IF v = w THEN [state |-> "awaiting", index |-> i]
                                   ELSE m.workers[v]]]

RECURSIVE StartWorkers(_, _)
\* Array.from({ length: workerCount }, () => workerLoop()): each loop runs
\* to its first await before the next one is started
StartWorkers(m, w) ==
  IF w > Len(m.workers) THEN m ELSE StartWorkers(workerLoop(m, w), w + 1)

\* the call, up to await Promise.all(...)
mapWithConcurrency ==
  /\ mapper.promise = "none"
  /\ mapper' =
       StartWorkers(
         [mapper EXCEPT
            !.promise = "pending",
            !.results = [i \in 0..(Len(mapper.items) - 1) |-> EmptySlot],
            !.workers = [w \in 1..workerCount(mapper.concurrency, Len(mapper.items)) |->
                           [state |-> "created", index |-> 0]]],
         1)
  /\ UNCHANGED <<mainVars, plannerVars, client, utility, probe>>

\* results[i] = await fn(items[i], i), the call being fulfilled; the loop
\* goes on to its next index
CallFulfilled ==
  \E w \in DOMAIN mapper.workers :
    /\ mapper.workers[w].state = "awaiting"
    /\ LET i == mapper.workers[w].index
       IN mapper' =
            workerLoop(
              [mapper EXCEPT
                 !.results = [j \in DOMAIN mapper.results |->
                                IF j = i THEN fn(mapper.items[i + 1], i)
                                ELSE mapper.results[j]],
                 !.completed = Append(mapper.completed, i)],
              w)
    /\ UNCHANGED <<mainVars, plannerVars, client, utility, probe>>

\* the awaited call is rejected: the worker loop throws, and Promise.all
\* rejects with the first error; the other loops go on
CallRejected ==
  \E w \in DOMAIN mapper.workers :
    /\ mapper.workers[w].state = "awaiting"
    /\ mapper' =
         [mapper EXCEPT
            !.completed = Append(mapper.completed, mapper.workers[w].index),
            !.promise = IF mapper.promise = "pending" THEN "rejected" ELSE mapper.promise,
            !.workers = [v \in DOMAIN mapper.workers |->
                           IF v = w THEN [state |-> "threw", index |-> mapper.workers[w].index]
                           ELSE mapper.workers[v]]]
    /\ UNCHANGED <<mainVars, plannerVars, client, utility, probe>>

\* every worker loop has returned: return results
ReturnResults ==
  /\ mapper.promise = "pending"
  /\ \A w \in DOMAIN mapper.workers : mapper.workers[w].state = "returned"
  /\ mapper' = [mapper EXCEPT !.promise = "fulfilled", !.returned = mapper.results]
  /\ UNCHANGED <<mainVars, plannerVars, client, utility, probe>>

InitMap ==
  /\ regions = [active |-> MaxActive, board |-> MaxBoard]
  /\ Constructed
  /\ routeTimeOf = [CAVIAR |-> 10, SOAP |-> 20]
  /\ PlannerIdle
  /\ client = NoClient
  /\ utility = NoUtility
  /\ probe = NoProbe
  /\ mapper \in {[NoMapper EXCEPT !.items = items, !.concurrency = concurrency] :
                   items \in ItemLists, concurrency \in 0..MaxConcurrency}

NextMap ==
  \/ mapWithConcurrency
  \/ CallFulfilled
  \/ CallRejected
  \/ ReturnResults

SpecMap == InitMap /\ [][NextMap]_vars

(***************************************************************************)
(* Vocabulary of the properties                                            *)
(***************************************************************************)
\* a Solution is cached
Cached == prevOptimalBounties # <<>>
\* two key lists are equal as multisets
SameBag(s, t) == \A b \in BountyKeys : CountOf(s, b) = CountOf(t, b)
\* the signature of a snapshot: its non-PUMPKIN tasks, held and offered
SnapshotBag(active, board) == SelectSeq(Values(active) \o Values(board), NotPumpkin)
\* the age above which a tracked computation is stale
StaleAgeMs == pathfinderWorkerTimeoutMs + StaleMarginMs
\* the step launched a computation
Launched == nextId' = nextId + 1 /\ Len(pending') = Len(pending) + 1
\* the held slots of a type, and whether a held slot is in its grace window
HeldOf(b) == {idx \in ActiveSlots : activeBounties[idx] = b}
Fresh(idx) == now - appearedAt[idx] < dropGraceMs

(***************************************************************************)
(* Properties                                                              *)
(***************************************************************************)
\* C1: when a computation completes successfully, its result replaces the
\* cached Solution if and only if no Solution is cached or its efficiency
\* (kp / distance) is strictly greater than the cached one; otherwise the
\* cached subset, reward, time and the stored action list stay as they are.
C1_AcceptanceRule ==
  [][ev'.op = "resolved" =>
       LET res == ev'.result
           better == /\ res.distance > 0
                     /\ distanceSeconds > 0
                     /\ res.kp * distanceSeconds > kp * res.distance
       IN IF ~Cached \/ better
          THEN /\ prevOptimalBounties' = res.bounties
               /\ kp' = res.kp
               /\ distanceSeconds' = res.distance
          ELSE UNCHANGED <<prevOptimalBounties, kp, distanceSeconds, steps>>]_vars

\* a result for another subset with exactly the cached efficiency was discarded
C1_TieRejected ==
  /\ ev.op = "resolved"
  /\ ev.had
  /\ ev.result.distance > 0
  /\ ev.result.bounties # prevOptimalBounties
  /\ ev.result.kp * distanceSeconds = kp * ev.result.distance
  /\ ~ev.accepted

C3_LateCompletionIgnored ==
  [][(ev'.op = "resolved" /\ inFlightFind.id # ev'.id)
     => UNCHANGED <<prevOptimalBounties, kp, steps, prevAllBountiesSignature>>]_vars

\* C4: while a computation is tracked and not stale, a snapshot that
\* requests a recomputation launches nothing and leaves the in-flight
\* record as it is.
C4_OneTracked ==
  [][(/\ ev'.op = "snapshot"
      /\ ev'.recompute
      /\ inFlightFind # NoFind
      /\ now - inFlightFind.startedAtMs <= StaleAgeMs)
     => /\ inFlightFind' = inFlightFind
        /\ pending' = pending
        /\ nextId' = nextId]_vars

\* a request for another signature was dropped because of a tracked computation
C4_TriggerDropped ==
  /\ ev.op = "snapshot"
  /\ ev.recompute
  /\ ev.tracked
  /\ ~ev.stale
  /\ ~ev.sameSig
  /\ ~ev.launched
  /\ inFlightFind # NoFind

\* C5 (as amended): a snapshot that requests a recomputation while the
\* tracked computation is older than the timeout plus the margin replaces
\* the record by a newly launched computation when its signature differs
\* from the tracked one, and does nothing to it when the two are equal.
C5_StaleClearing ==
  [][(/\ ev'.op = "snapshot"
      /\ ev'.recompute
      /\ inFlightFind # NoFind
      /\ now - inFlightFind.startedAtMs > StaleAgeMs)
     => LET bag == SnapshotBag(activeBounties', boardBounties')
        IN IF SameBag(bag, inFlightFind.signature)
           THEN inFlightFind' = inFlightFind /\ pending' = pending
           ELSE /\ Launched
                /\ inFlightFind'.id = nextId
                /\ inFlightFind'.startedAtMs = now
                /\ SameBag(inFlightFind'.signature, bag)]_vars

\* a stale record was replaced by a new launch
C5_StaleReplaced ==
  /\ ev.op = "snapshot"
  /\ ev.stale
  /\ ev.launched
  /\ inFlightFind.id = ev.id
  /\ inFlightFind.startedAtMs = now

\* C5 (as stated): such a snapshot always launches a new computation,
\* whatever the two signatures are.
C5_StaleAlwaysRelaunched ==
  [][(/\ ev'.op = "snapshot"
      /\ ev'.recompute
      /\ inFlightFind # NoFind
      /\ now - inFlightFind.startedAtMs > StaleAgeMs)
     => Launched /\ inFlightFind'.id = nextId]_vars

\* the five conditions of C6 for the snapshot a step processes, and the
\* mid-transition condition of C7; the unprimed variables are the state the
\* snapshot finds, the primed ones hold the snapshot
NeverLaunched == ~launchedAtLeastOnce
PanelToggled == lastOpen' # lastOpen
OffersChanged == lastOpen' /\ ~SameBag(Values(boardBounties'), Values(boardBounties))
SignatureDiffers ==
  ~SameBag(SnapshotBag(activeBounties', boardBounties'), prevAllBountiesSignature)
HeldIncreased ==
  Cardinality(Keys(activeBounties')) > Cardinality(Keys(activeBounties))
HeldMatchesSolution == SameBag(Values(activeBounties'), prevOptimalBounties)
MidTransition == Cached /\ lastOpen' /\ ~HeldMatchesSolution

\* C6 (as amended): processing a snapshot requests a recomputation exactly
\* when no computation was ever launched, or the panel flag differs from the
\* previous snapshot, or the multiset of offered tasks differs from the
\* previous snapshot while the panel is open, or the signature differs from
\* the last computed one and the number of held slots increased and the held
\* tasks are not mid-transition, or the signature differs from the last
\* computed one and the held multiset equals the cached subset.
C6_TriggerConditions ==
  [][ev'.op = "snapshot" =>
       (ev'.recompute <=>
          \/ NeverLaunched
          \/ PanelToggled
          \/ OffersChanged
          \/ (SignatureDiffers /\ HeldIncreased /\ ~MidTransition)
          \/ (SignatureDiffers /\ HeldMatchesSolution))]_vars

\* a snapshot with a new signature and one more held slot requested nothing,
\* because the held tasks were mid-transition
C6_AddingWhileAdjusting ==
  /\ ev.op = "snapshot"
  /\ ev.adding
  /\ ~ev.recompute
  /\ Cached
  /\ lastOpen
  /\ ~SameBag(Values(activeBounties), prevOptimalBounties)
  /\ ~SameBag(SnapshotBag(activeBounties, boardBounties), prevAllBountiesSignature)

\* C6 (as stated): the request is made exactly when one of the five
\* conditions holds.
C6_FiveConditions ==
  [][ev'.op = "snapshot" =>
       (ev'.recompute <=>
          \/ NeverLaunched
          \/ PanelToggled
          \/ OffersChanged
          \/ (SignatureDiffers /\ HeldIncreased)
          \/ (SignatureDiffers /\ HeldMatchesSolution))]_vars

\* C7 (as stated): a snapshot processed while a Solution is cached, the
\* panel is open and the held multiset differs from the cached subset
\* launches no computation.
C7_NoLaunchMidTransition ==
  [][(ev'.op = "snapshot" /\ MidTransition)
     => nextId' = nextId /\ pending' = pending]_vars

\* C8 (as stated): after every snapshot, each held PUMPKIN slot that is
\* outside its grace window is signaled drop.
C8_PumpkinAlwaysDropped ==
  ev.op = "snapshot" =>
    \A idx \in HeldOf(PUMPKIN) : ~Fresh(idx) => idx \in activeDrops

\* C9: no held slot is signaled drop by a snapshot processed less than
\* dropGraceMs after the snapshot in which the slot became occupied.
C9_GraceWindow ==
  ev.op = "snapshot" => \A idx \in activeDrops : ~Fresh(idx)

\* with a Solution cached and no suppression, a fresh slot that is not part
\* of the Solution (a PUMPKIN, or a surplus task) was not signaled drop
C9_FreshSlotSpared ==
  /\ ev.op = "snapshot"
  /\ Cached
  /\ inFlightFind = NoFind
  /\ \E idx \in Keys(activeBounties) :
       /\ Fresh(idx)
       /\ now > appearedAt[idx]
       /\ CountOf(prevOptimalBounties, activeBounties[idx]) = 0
       /\ idx \notin activeDrops

\* C10: after a snapshot with a Solution cached and suppression not active,
\* a held slot of a type other than PUMPKIN is signaled drop exactly when it
\* is outside its grace window and the held slots of its type from its index
\* upwards are more than the Solution calls for (it is one of the held -
\* Solution lowest-index slots of the type); so the drops of a type never
\* exceed its surplus and there are none without a surplus.
C10_DropRule ==
  (/\ ev.op = "snapshot"
   /\ Cached
   /\ ~(suppressDropsWhileRecompute /\ inFlightFind # NoFind))
  => \A b \in BountyKeys \ {PUMPKIN} :
       LET allowed == CountOf(prevOptimalBounties, b)
           surplus == IF Cardinality(HeldOf(b)) > allowed
                      THEN Cardinality(HeldOf(b)) - allowed ELSE 0
       IN /\ \A idx \in HeldOf(b) :
               idx \in activeDrops <=>
                 /\ ~Fresh(idx)
                 /\ Cardinality({j \in HeldOf(b) : j >= idx}) > allowed
          /\ Cardinality(activeDrops \cap HeldOf(b)) <= surplus

\* of two held slots of one type the lower one was signaled drop and the
\* higher one kept
C10_LowestSurplusDropped ==
  /\ ev.op = "snapshot"
  /\ Cached
  /\ inFlightFind = NoFind
  /\ \E idx \in activeDrops : \E j \in ActiveSlots :
       /\ j > idx
       /\ activeBounties[idx] # PUMPKIN
       /\ activeBounties[j] = activeBounties[idx]
       /\ j \notin activeDrops
       /\ ~Fresh(j)

\* the offered slots of a type
OfferedOf(b) == {i \in BoardSlots : boardBounties[i] = b}
\* the tasks of a type the Solution still calls for beyond those held
Wanted(b) ==
  IF CountOf(prevOptimalBounties, b) > Cardinality(HeldOf(b))
  THEN CountOf(prevOptimalBounties, b) - Cardinality(HeldOf(b)) ELSE 0

\* C11 (as amended): after a snapshot with a Solution cached and the panel
\* open, an offered slot is signaled accept exactly when the held slots of
\* its type plus the lower-index offered slots of its type are fewer than
\* the Solution's count of the type; the accept-signaled slots of a type
\* are never more than the Solution's count minus the held count (none when
\* the held count already reaches it); with the panel closed no slot is
\* signaled accept.
C11_AcceptRule ==
  /\ ~lastOpen => boardPickups = {}
  /\ (ev.op = "snapshot" /\ Cached /\ lastOpen) =>
       /\ \A i \in BoardSlots :
            i \in boardPickups <=>
              /\ boardBounties[i] # None
              /\ Cardinality(HeldOf(boardBounties[i]))
                   + Cardinality({j \in OfferedOf(boardBounties[i]) : j < i})
                 < CountOf(prevOptimalBounties, boardBounties[i])
       /\ \A b \in BountyKeys :
            Cardinality(boardPickups \cap OfferedOf(b)) <= Wanted(b)

\* of two offered slots of one type the lower one was signaled accept and
\* the higher one was not, the Solution calling for one more only
C11_SecondOfferRefused ==
  /\ ev.op = "snapshot"
  /\ Cached
  /\ lastOpen
  /\ \E i \in boardPickups : \E j \in BoardSlots :
       /\ j > i
       /\ boardBounties[j] = boardBounties[i]
       /\ j \notin boardPickups

\* C11 (as stated): the same rule, and for every type the held slots plus
\* the accept-signaled slots never exceed the Solution's count.
C11_HeldPlusAcceptedBounded ==
  /\ ~lastOpen => boardPickups = {}
  /\ (ev.op = "snapshot" /\ Cached /\ lastOpen) =>
       /\ \A i \in BoardSlots :
            i \in boardPickups <=>
              /\ boardBounties[i] # None
              /\ Cardinality(HeldOf(boardBounties[i]))
                   + Cardinality({j \in boardPickups :
                                    j < i /\ boardBounties[j] = boardBounties[i]})
                 < CountOf(prevOptimalBounties, boardBounties[i])
       /\ \A b \in BountyKeys :
            Cardinality(HeldOf(b)) + Cardinality(boardPickups \cap OfferedOf(b))
              <= CountOf(prevOptimalBounties, b)

C13_FullCompletionClears ==
  [][(/\ ev'.op = "snapshot"
      /\ Cached
      /\ Keys(activeBounties) # {}
      /\ Keys(activeBounties') = {})
     => /\ prevOptimalBounties' = <<>>
        /\ kp' = 0
        /\ distanceSeconds' = NaN
        /\ steps' = <<>>]_vars


\* the buy steps of a task type in an action list
BuysOf(actions, b) ==
  Cardinality({i \in 1..Len(actions) :
                 actions[i].type = "buy" /\ actions[i].item = b})

NotBuy(s) == s.type # "buy"

\* C14 (as stated): a Solution accepted while the progress index is above
\* zero is stored with every sell, teleport and return step kept in order,
\* and, for each task type, with as many buy steps removed as the smaller of
\* the held count of the type and the number of its buy steps in the Solution.
C14_MidRoutePruning ==
  [][(/\ ev'.op = "resolved"
      /\ ev'.accepted
      /\ stepIdx > 0)
     => /\ SelectSeq(steps', NotBuy) = SelectSeq(ev'.result.actions, NotBuy)
        /\ \A b \in BountyKeys :
             BuysOf(ev'.result.actions, b) - BuysOf(steps', b)
               = Min(Cardinality(HeldOf(b)), BuysOf(ev'.result.actions, b))]_vars


\* C15: a computation that fails (the worker replies with an error, the
\* worker thread fails, or the request times out) leaves the cached Solution,
\* the stored action list and the last-computed signature as they were, and
\* the in-flight record of that computation is cleared, so that the next
\* trigger is not held back by it.
C15_FailureFallback ==
  [][(ev'.op \in {"rejected", "workerError"})
     => /\ UNCHANGED <<prevOptimalBounties, kp, distanceSeconds, steps, stepIdx,
                       prevAllBountiesSignature>>
        /\ ev'.tracked
             => /\ inFlightFind' = NoFind
                /\ LaunchDecision(inFlightFind', inFlightFind.signature)
                /\ LaunchDecision(inFlightFind', prevAllBountiesSignature)]_vars

\* the tracked computation failed while a Solution was cached
C15_FailedKeepsSolution ==
  /\ ev.op = "rejected"
  /\ ev.tracked
  /\ ev.had
  /\ Cached
  /\ steps # <<>>
  /\ inFlightFind = NoFind


\* findBestRoute has returned
RouteDone == call.fn = "findBestRoute" /\ call.done

\* findBestBounties has returned
BountiesDone == call.fn = "findBestBounties" /\ call.done

\* the tasks bought and not yet sold after the first n actions of a list
Carried(actions, n) ==
  Cardinality({i \in 1..n : actions[i].type = "buy"})
    - Cardinality({i \in 1..n : actions[i].type = "sell"})

\* C16: a route that findBestRoute returns has a total time, the way back
\* included when roundTrip is set, strictly under the threshold; the time it
\* reports is the time of its last action, and no list is longer than the
\* six tasks of a full inventory.
C16_ThresholdRespected ==
  (RouteDone /\ returnedRoute.found)
    => /\ returnedRoute.distance < call.threshold
       /\ returnedRoute.actions[Len(returnedRoute.actions)].distance
            = returnedRoute.distance
       /\ (call.roundTrip /\ returnedRoute.last # bountyBoard)
            => returnedRoute.actions[Len(returnedRoute.actions)].type = "return"
       /\ Len(call.bounties) <= 6

\* a round trip of several tasks was returned under a finite threshold
C16_ReturnedUnderBudget ==
  /\ RouteDone
  /\ returnedRoute.found
  /\ call.roundTrip
  /\ call.threshold < MAX_SAFE_INTEGER
  /\ Len(call.bounties) >= 2

\* C17: in every search state of findBestRoute, visited or still queued, and
\* after every action of a returned route, the tasks bought and not yet sold
\* take at most the inventory: at most four of them.
C17_Capacity ==
  RouteDone
    => /\ \A st \in returnedRoute.explored :
            InProgress(st) * UnitSpace <= inventorySpace
       /\ \A i \in 1..Len(returnedRoute.left) :
            InProgress(returnedRoute.left[i].bountyStates) * UnitSpace <= inventorySpace
       /\ \A n \in 0..Len(returnedRoute.actions) :
            Carried(returnedRoute.actions, n) * UnitSpace <= inventorySpace

\* a full inventory kept a task from being bought at the stall where the
\* tasks in progress were bought
C17_PurchaseRefused ==
  /\ RouteDone
  /\ returnedRoute.found
  /\ \E st \in returnedRoute.explored :
       /\ InProgress(st) * UnitSpace = inventorySpace
       /\ \E i, j \in 1..Len(st) :
            /\ st[i] = NOT_STARTED
            /\ st[j] = IN_PROGRESS
            /\ SellerNode(call.bounties[i]) = SellerNode(call.bounties[j])

EndsRoute(bounties, gps, e) == deliveriesCompleted(Visit(bounties, gps, e).bountyStates)
TotalOf(bounties, gps, e, roundTrip) ==
  WithReturn(gps, e, Visit(bounties, gps, e), roundTrip).distance

\* C19 (as stated): without a threshold the route that findBestRoute returns
\* has the least total time of all complete routes that the search rules
\* allow, and no entry still in the queue ends a quicker route.
C19_PlannerOptimal ==
  (RouteDone /\ returnedRoute.found /\ call.threshold = MAX_SAFE_INTEGER)
    => /\ returnedRoute.distance = LeastTotal(call.bounties, GPS, call.roundTrip)
       /\ \A i \in 1..Len(returnedRoute.left) :
            EndsRoute(call.bounties, GPS, returnedRoute.left[i])
              => TotalOf(call.bounties, GPS, returnedRoute.left[i], call.roundTrip)
                   >= returnedRoute.distance

\* C20 (as stated): with pruningThreshold 1.0 and no bound on the evaluations
\* the first result of findBestBounties is as efficient as the most efficient
\* combination, each combination planned without a time budget.
C20_ExhaustiveExact ==
  (BountiesDone /\ call.pruningOptions = ExhaustiveOptions)
    => LET best == findBestBountiesExhaustive(call.bounties, call.roundTrip, call.policy)
       IN best # NoResult
            => /\ returnedResults # <<>>
               /\ ~MoreEfficient(best.kp, best.distance,
                                 returnedResults[1].kp, returnedResults[1].distance)


\* pruning is enabled or the evaluations are bounded
PrunedMode(pruningOptions) ==
  pruningOptions.pruningThreshold < 100 \/ pruningOptions.maxEvaluations < Infinity

\* what findBestBounties returns for the arguments of a call in the
\* exhaustive mode
ExhaustiveResults(c) ==
  findBestBounties(c.bounties, c.roundTrip, c.numResults, ExhaustiveOptions,
                   c.policy).results

\* C21: on the same input, the best Solution of the exhaustive mode
\* (pruningThreshold 1.0, maxEvaluations Infinity) is at least as efficient as
\* the best Solution that the pruned mode returns.
C21_ExhaustiveNotWorse ==
  (BountiesDone /\ PrunedMode(call.pruningOptions) /\ returnedResults # <<>>)
    => LET exhaustive == ExhaustiveResults(call)
       IN /\ exhaustive # <<>>
          /\ ~MoreEfficient(returnedResults[1].kp, returnedResults[1].distance,
                            exhaustive[1].kp, exhaustive[1].distance)

\* the pruned mode stopped with candidates left, which the exhaustive mode
\* goes on to plan
C21_PrunedStoppedEarly ==
  /\ BountiesDone
  /\ PrunedMode(call.pruningOptions)
  /\ perf.stop # "none"
  /\ perf.skipped > 0
  /\ returnedResults # <<>>
  /\ Len(call.bounties) = MaxAllBounties
  /\ ExhaustiveResults(call) # <<>>

\* no result of a list is more efficient than one before it
RankedByEfficiency(results) ==
  \A i \in 1..(Len(results) - 1) :
    ~MoreEfficient(results[i + 1].kp, results[i + 1].distance,
                   results[i].kp, results[i].distance)

\* the results that are at least as efficient as a reward per planned time
AtLeastAsEfficient(results, aKp, aDistance) ==
  {i \in 1..Len(results) :
     ~MoreEfficient(aKp, aDistance, results[i].kp, results[i].distance)}

\* findBestBounties returns at most numResults results, the most efficient
\* first
BoundedAndRanked ==
  BountiesDone
    => /\ Len(returnedResults) <= call.numResults
       /\ RankedByEfficiency(returnedResults)

\* C22 (as stated): findBestBounties returns at most numResults Solutions, the
\* most efficient first, and a candidate that was evaluated (findBestRoute was
\* called for it) is absent from the result only if numResults results are at
\* least as efficient as the candidate is with its planned route.
C22_BoundedTopK ==
  BountiesDone
    => /\ Len(returnedResults) <= call.numResults
       /\ RankedByEfficiency(returnedResults)
       /\ \A i \in 1..Len(perf.planned) :
            LET c == perf.planned[i]
                unbudgeted == findBestRoute(c.combo, GPS, MAX_SAFE_INTEGER, call.roundTrip,
                                      call.policy)
            IN (/\ unbudgeted.found
                /\ \A j \in 1..Len(returnedResults) : returnedResults[j].bounties # c.combo)
                 => Cardinality(AtLeastAsEfficient(returnedResults, c.kp, unbudgeted.distance))
                      >= call.numResults

\* the efficiency of a.kp / a.distance is below pruningThreshold (in
\* hundredths) times the efficiency of a result
BelowPruning(aKp, aDistance, result, pruningThreshold) ==
  aKp * result.distance * 100 < result.kp * pruningThreshold * aDistance

\* the results of a list than which none is less efficient
LeastEfficient(results) ==
  {i \in 1..Len(results) :
     \A j \in 1..Len(results) :
       ~MoreEfficient(results[i].kp, results[i].distance,
                      results[j].kp, results[j].distance)}

\* the loop was left at a break, with candidates not evaluated
StoppedEarly == BountiesDone /\ perf.stop # "none"

\* C23 (as stated): findBestBounties stops before evaluating all candidates
\* only when it holds numResults Solutions and either (a) pruningThreshold is
\* below 1.0 and the estimated efficiency of the next candidate is below
\* pruningThreshold times the efficiency of the least efficient held
\* Solution, or (b) maxEvaluations is finite and the evaluation count has
\* reached it.
C23_EarlyStop ==
  StoppedEarly
    => /\ Len(perf.held) >= call.numResults
       /\ \/ /\ call.pruningOptions.pruningThreshold < 100
             /\ \E i \in LeastEfficient(perf.held) :
                  BelowPruning(perf.next.kp, perf.next.estimatedDistance, perf.held[i],
                               call.pruningOptions.pruningThreshold)
          \/ /\ call.pruningOptions.maxEvaluations < Infinity
             /\ perf.evaluated >= call.pruningOptions.maxEvaluations

\* what holds of the code: at a break numResults Solutions are held, and
\* either the next candidate is below the pruning threshold of the Solution
\* last in the list, or the evaluations have reached maxEvaluations
EarlyStopAtLastHeld ==
  StoppedEarly
    => /\ Len(perf.held) >= call.numResults
       /\ \/ /\ call.pruningOptions.pruningThreshold < 100
             /\ BelowPruning(perf.next.kp, perf.next.estimatedDistance,
                             perf.held[Len(perf.held)],
                             call.pruningOptions.pruningThreshold)
          \/ /\ call.pruningOptions.maxEvaluations < Infinity
             /\ perf.evaluated >= call.pruningOptions.maxEvaluations

\* the loop was left for the evaluation count
StoppedForEvaluations == BountiesDone /\ perf.stop = "enough"

\* C24 (as stated): findBestBounties considers at most
\* pruningOptions.maxCombinations candidates: for an input that generates
\* more combinations than maxCombinations, findBestRoute is called for no
\* more than maxCombinations of them.
C24_AtMostMaxCombinations ==
  (BountiesDone /\ perf.total > call.pruningOptions.maxCombinations)
    => /\ Len(perf.planned) <= call.pruningOptions.maxCombinations
       /\ perf.evaluated <= call.pruningOptions.maxCombinations

\* the buy and sell actions of a route, in order
Trades(actions) == SelectSeq(actions, LAMBDA a : a.type \in {"buy", "sell"})

\* how many of the first n actions are of a type and for a task type
ActionsOf(actions, n, type, item) ==
  Cardinality({i \in 1..n : actions[i].type = type /\ actions[i].item = item})

\* C28: in every route that findBestRoute returns, each task of the list has
\* exactly one buy action and exactly one sell action, the buy before the
\* sell (per task type: as many buys and as many sells as the list has tasks
\* of the type, and at no point more sells than buys), and at every stop
\* the sell actions come before the buy actions.
C28_RouteValid ==
  (RouteDone /\ returnedRoute.found)
    => LET actions == returnedRoute.actions
           trades == Trades(actions)
       IN /\ \A item \in RouteKeys :
               /\ ActionsOf(actions, Len(actions), "buy", item)
                    = CountOf(call.bounties, item)
               /\ ActionsOf(actions, Len(actions), "sell", item)
                    = CountOf(call.bounties, item)
               /\ \A n \in 0..Len(actions) :
                    ActionsOf(actions, n, "sell", item) <= ActionsOf(actions, n, "buy", item)
          /\ \A i \in 1..(Len(trades) - 1) :
               ~(/\ trades[i].type = "buy"
                 /\ trades[i + 1].type = "sell"
                 /\ trades[i].location = trades[i + 1].location)

\* a returned route sells and then buys at one stop, and the list has two
\* tasks of one type
C28_SellThenBuyAtOneStop ==
  /\ RouteDone
  /\ returnedRoute.found
  /\ \E item \in RouteKeys : CountOf(call.bounties, item) >= 2
  /\ LET trades == Trades(returnedRoute.actions)
     IN \E i \in 1..(Len(trades) - 1) :
          /\ trades[i].type = "sell"
          /\ trades[i + 1].type = "buy"
          /\ trades[i].location = trades[i + 1].location

RECURSIVE SumOver(_, _)
\* f[1] + ... + f[n]
SumOver(f, n) == IF n = 0 THEN 0 ELSE f[n] + SumOver(f, n - 1)

\* the trade with which a stop begins
StartsStop(trades, i) == i = 1 \/ trades[i - 1].location # trades[i].location

\* the first buy of a stop
FirstBuyOfStop(trades, i) ==
  /\ trades[i].type = "buy"
  /\ ~(i > 1 /\ trades[i - 1].type = "buy" /\ trades[i - 1].location = trades[i].location)

\* the time of a route as the claim accounts for it: the oracle's travel
\* between consecutive stops from the board on, timeToBuy per stop with a
\* buy, timeToSell per sale, and the way back to the board
AccountedTime(gps, actions, roundTrip) ==
  LET trades == Trades(actions)
      n == Len(trades)
      travel == [i \in 1..n |->
                   IF StartsStop(trades, i)
                   THEN GpsDistance(gps, IF i = 1 THEN bountyBoard
                                         ELSE trades[i - 1].location,
                                    trades[i].location).distance
                   ELSE 0]
      trade == [i \in 1..n |->
                  IF trades[i].type = "sell" THEN timeToSell
                  ELSE IF FirstBuyOfStop(trades, i) THEN timeToBuy ELSE 0]
      last == IF n = 0 THEN bountyBoard ELSE trades[n].location
  IN SumOver(travel, n) + SumOver(trade, n)
       + (IF roundTrip /\ last # bountyBoard
          THEN GpsDistance(gps, last, bountyBoard).distance ELSE 0)

\* C29: the total time of every route that findBestRoute returns is the sum
\* of the oracle's travel times between consecutive stops, timeToBuy once
\* per stop with at least one buy, timeToSell once per task, and the travel
\* back to the board when roundTrip is set and the last stop is not the
\* board.
C29_TimeAccounting ==
  (RouteDone /\ returnedRoute.found)
    => returnedRoute.distance
         = AccountedTime(GPS, returnedRoute.actions, call.roundTrip)

\* a returned round trip buys two tasks at one stop and ends away from the
\* board
C29_TwoBoughtAtOneStop ==
  /\ RouteDone
  /\ returnedRoute.found
  /\ call.roundTrip
  /\ returnedRoute.last # bountyBoard
  /\ LET trades == Trades(returnedRoute.actions)
     IN \E i \in 1..(Len(trades) - 1) :
          /\ trades[i].type = "buy"
          /\ trades[i + 1].type = "buy"
          /\ trades[i].location = trades[i + 1].location

\* the call with an id was made, and its promise is settled
Called(id) == Len(client.calls) >= id
Settled(id) == Called(id) /\ client.calls[id].wrapped # "pending"

\* what holds of every call at every moment
FindBestSettlement ==
  \A id \in 1..Len(client.calls) :
    LET c == client.calls[id]
    IN /\ (id \in client.pending) => c.wrapped = "pending"
       /\ c.settles = (IF c.wrapped = "pending" THEN 0 ELSE 1)
       /\ c.wrapped = "fulfilled"
            => c.error = "none" /\ c.timer = "cleared"
       /\ c.wrapped = "rejected"
            => \/ /\ c.error = "timeout"
                  /\ c.timer = "fired"
                  /\ c.settledAt - c.startedAt = c.timeoutMs
               \/ /\ c.error \in {"reply", "thread"}
                  /\ c.timer = "cleared"
       /\ c.wrapped # "pending" => c.settledAt - c.startedAt <= c.timeoutMs

\* what holds of every step: a settled call stays as it is, an ok:true reply
\* with the id of a pending request resolves it and an ok:false reply rejects
\* it, and a message with the id of no pending request changes no call
FindBestStep ==
  /\ \A id \in 1..Len(client.calls) :
       client.calls[id].wrapped # "pending"
         => /\ client'.calls[id].wrapped = client.calls[id].wrapped
            /\ client'.calls[id].error = client.calls[id].error
            /\ client'.calls[id].settledAt = client.calls[id].settledAt
  /\ (client'.last.op = "message" /\ client'.last.id \notin client.pending)
       => /\ client'.calls = client.calls
          /\ client'.pending = client.pending
          /\ ~client'.last.settled
  /\ (client'.last.op = "message" /\ client'.last.id \in client.pending)
       => /\ client'.calls[client'.last.id].wrapped \in {"fulfilled", "rejected"}
          /\ client'.calls[client'.last.id].error \in {"none", "reply"}
          /\ client'.last.id \notin client'.pending

\* C25 (amended): every findBest call settles exactly once.  It resolves
\* when an ok:true reply with its id is handled while the request is pending;
\* it rejects with the worker's error on an ok:false reply with its id, with
\* the thread's error when the thread fails or exits with a code other than 0
\* while the request is pending, and otherwise with the timeout error when
\* timeoutMs have passed.  A reply after the timeout or with an unknown id
\* settles nothing, and a settled request is not in the pending map.
C25_SettlesOnce ==
  /\ []FindBestSettlement
  /\ [][FindBestStep]_vars
  /\ \A id \in 1..MaxCalls : Called(id) ~> Settled(id)

\* a request timed out, the reply of the thread came afterwards and settled
\* nothing, and another request was resolved
C25_LateReplyIgnored ==
  /\ client.last.op = "message"
  /\ client.last.id >= 1
  /\ ~client.last.settled
  /\ client.calls[client.last.id].error = "timeout"
  /\ \E id \in 1..Len(client.calls) : client.calls[id].wrapped = "fulfilled"

\* C25 (as stated): a call either resolves, on a reply with its id before
\* timeoutMs, or rejects with the timeout error at timeoutMs.
C25_ResolvedOrTimedOut ==
  \A id \in 1..Len(client.calls) :
    LET c == client.calls[id]
    IN /\ c.wrapped = "rejected"
            => c.error = "timeout" /\ c.settledAt - c.startedAt = c.timeoutMs
       /\ (client.last.op = "message" /\ client.last.id = id /\ client.last.settled)
            => c.wrapped = "fulfilled"

\* the replies that carry an id
RepliesTo(id) == {i \in 1..Len(utility.replies) : utility.replies[i].id = id}

\* the handler has run for the message with an id
Handled(id) == Len(utility.handled) >= id

\* C26: every warmup or evaluateChunk message that the handler has run for
\* has exactly one reply with its id, ok:true with the results or ok:false;
\* an exception while one message is handled yields ok:false for that id
\* only, and the messages after it are answered as they would be without it:
\* with the results of their own chunk.  No other reply is posted.
C26_OneReplyPerMessage ==
  /\ \A i \in 1..Len(utility.handled) :
       LET h == utility.handled[i]
       IN IF h.msg.type \in {"warmup", "evaluateChunk"}
          THEN /\ Cardinality(RepliesTo(h.msg.id)) = 1
               /\ \A r \in RepliesTo(h.msg.id) :
                    /\ utility.replies[r].ok = ~h.threw
                    /\ (h.msg.type = "evaluateChunk" /\ ~h.threw)
                         => utility.replies[r].results
                              = evaluateChunk(h.msg, h.policy).results
          ELSE RepliesTo(h.msg.id) = {}
  /\ \A r \in 1..Len(utility.replies) : Handled(utility.replies[r].id)
  /\ \A i \in 1..Len(utility.inbox) : RepliesTo(utility.inbox[i].id) = {}

\* the handling of a chunk threw and was answered ok:false, and the chunk
\* after it was answered ok:true with a result
C26_AnsweredAfterFailure ==
  /\ Len(utility.replies) >= 2
  /\ \E r \in 1..(Len(utility.replies) - 1) :
       /\ ~utility.replies[r].ok
       /\ utility.handled[utility.replies[r].id].msg.type = "evaluateChunk"
       /\ utility.replies[r + 1].ok
       /\ utility.replies[r + 1].results # <<>>

\* a variant that compares the held tasks in slot order with the subset
getStatusUnsorted(find, optimalBounties, active) ==
  IF find # NoFind THEN "computing"
  ELSE IF Len(optimalBounties) > 0
       THEN IF Values(active) = optimalBounties THEN "optimal" ELSE "not-optimal"
       ELSE "not-optimal"

\* the status of getOCRDataPayload and of the screenshot loop:
\* Object.values(activeBounties).sort().join(',') against
\* prevOptimalBounties.slice().sort().join(',')
getStatus(find, optimalBounties, active) ==
  IF find # NoFind THEN "computing"
  ELSE IF Len(optimalBounties) > 0
       THEN IF SortKeys(Values(active)) = SortKeys(optimalBounties)
            THEN "optimal" ELSE "not-optimal"
       ELSE "not-optimal"

\* the status that would be published now
status == getStatus(inFlightFind, prevOptimalBounties, activeBounties)

\* C27: the status is 'computing' exactly when a computation is tracked in
\* flight; otherwise it is 'optimal' exactly when a Solution is cached and
\* the held tasks equal the subset of the Solution as multisets; otherwise
\* it is 'not-optimal'.
C27_Status ==
  /\ status \in {"computing", "optimal", "not-optimal"}
  /\ status = "computing" <=> inFlightFind # NoFind
  /\ inFlightFind = NoFind
       => (status = "optimal"
             <=> Cached /\ SameBag(Values(activeBounties), prevOptimalBounties))
  /\ (inFlightFind = NoFind
        /\ ~(Cached /\ SameBag(Values(activeBounties), prevOptimalBounties)))
       => status = "not-optimal"

\* the status is 'optimal' with two held tasks whose slot order is not the
\* order of the subset
C27_OptimalInAnotherOrder ==
  /\ status = "optimal"
  /\ Len(prevOptimalBounties) >= 2
  /\ Values(activeBounties) # prevOptimalBounties

\* how often a snapshot shows a task type, held or offered
TaskCount(snapshot, b) ==
  Cardinality({i \in ActiveSlots : snapshot.active[i] = b})
    + Cardinality({i \in BoardSlots : snapshot.board[i] = b})

\* two snapshots show the same tasks, the always-reject type left aside
SameTasks(a, b) == \A t \in BountyKeys \ {PUMPKIN} : TaskCount(a, t) = TaskCount(b, t)

\* C30: two snapshots have the same signature if and only if their
\* multisets of held plus offered tasks, PUMPKIN removed, are equal; the
\* slots of the tasks and whether a task is held or offered do not matter.
C30_SignatureCanonical ==
  probe.signatures # <<>>
    => (probe.signatures[1] = probe.signatures[2]
          <=> SameTasks(probe.first, probe.second))

\* two snapshots with one signature: a task held in the one is offered in
\* the other, another sits in a different slot, and only one of them shows
\* a PUMPKIN
C30_SameSignatureOtherSlots ==
  /\ probe.signatures # <<>>
  /\ probe.signatures[1] = probe.signatures[2]
  /\ Len(probe.signatures[1]) >= 2
  /\ Values(probe.first.active) # Values(probe.second.active)
  /\ probe.first.active # probe.second.active
  /\ TaskCount(probe.first, PUMPKIN) # TaskCount(probe.second, PUMPKIN)

(***************************************************************************)
(* Forced recalculation                                                    *)
(***************************************************************************)
\* the request the worker answers next was launched by forceOptimalRecalculation
ForcedAnswered ==
  /\ pending # <<>>
  /\ Head(pending).optimal
  /\ ev'.op = "resolved"
  /\ ev'.id = Head(pending).id

\* C31 (first part): forceOptimalRecalculation with at least one relevant task
\* observed launches a computation with the exhaustive options, also over a
\* tracked computation, and tracks it
C31_ForcedLaunch ==
  [][(ev'.op = "force"
      /\ SelectSeq(Values(activeBounties) \o Values(boardBounties), NotPumpkin) # <<>>)
     => /\ ev'.launched
        /\ pending' = Append(pending, pending'[Len(pending')])
        /\ pending'[Len(pending')].optimal
        /\ pending'[Len(pending')].id = nextId
        /\ inFlightFind'.id = nextId
        /\ prevOptimalBounties' = <<>>]_vars

\* a forced computation was launched over a tracked one
C31_ForcedOverTracked ==
  /\ ev.op = "force"
  /\ ev.launched
  /\ ev.tracked
  /\ Len(pending) >= 2

\* C31: when a computation launched by forceOptimalRecalculation completes
\* successfully, its result becomes the cached Solution, whatever other
\* computation completed in between
C31_ForcedResultCached ==
  [][ForcedAnswered
     => /\ prevOptimalBounties' = ev'.result.bounties
        /\ kp' = ev'.result.kp
        /\ distanceSeconds' = ev'.result.distance]_vars

(***************************************************************************)
(* Step pruning                                                            *)
(***************************************************************************)
HeldCount(active) == Cardinality(Keys(active))
\* the task types of which fewer are held in the new snapshot
DecreasedTypes ==
  {b \in SlotVals \ {None} :
     CountOf(Values(activeBounties'), b) < CountOf(Values(activeBounties), b)}
\* number of actions up to and including the first sell action of the type
RemovedFor(list, b) ==
  LET sells == {i \in 1..Len(list) : list[i].type = "sell" /\ list[i].item = b}
  IN IF sells = {} THEN 0 ELSE CHOOSE i \in sells : \A j \in sells : i <= j
SuffixAfterSell(list, b) == SubSeq(list, RemovedFor(list, b) + 1, Len(list))
\* a snapshot taken with a Solution cached
SnapshotWithSolution == ev'.op = "snapshot" /\ Cached
OneCompleted == HeldCount(activeBounties) - HeldCount(activeBounties') = 1

TimesCalled(i) == Cardinality({k \in 1..Len(mapper.calls) : mapper.calls[k] = i})
Outstanding == Len(mapper.calls) - Len(mapper.completed)

ChunkSolutions(list) ==
  [i \in 1..Len(list) |-> <<list[i].combo, list[i].distance, list[i].kp>>]
SelectorSolutions(list) ==
  [i \in 1..Len(list) |-> <<list[i].bounties, list[i].distance, list[i].kp>>]
\* the evaluation loop of findBestBounties and its final sort, for the
\* candidates of a message, with maxEvaluations = Infinity
SelectorRanking(msg, policy) ==
  SortByEfficiency(
    EvaluateLoop(KnownPrefix(msg.tasks.list), GPS, msg.roundTrip, msg.numResults,
                 [maxCombinations |-> Infinity, maxEvaluations |-> Infinity,
                  pruningThreshold |-> msg.pruningThreshold],
                 policy, <<>>, 0).results)
AnsweredChunks ==
  {k \in 1..Len(utility.handled) :
     /\ utility.handled[k].msg.type = "evaluateChunk"
     /\ ~utility.handled[k].threw}
ReplyTo(id) ==
  utility.replies[CHOOSE r \in 1..Len(utility.replies) : utility.replies[r].id = id]

\* C34: for the same candidates in the same order, the same numResults,
\* roundTrip and pruningThreshold, the evaluateChunk handler returns the same
\* ranked Solutions (subsets, times, rewards) as the evaluation loop of
\* findBestBounties run with maxEvaluations = Infinity
C34_ChunkRefinesSelector ==
  \A k \in AnsweredChunks :
    LET h == utility.handled[k]
    IN /\ \E r \in 1..Len(utility.replies) : utility.replies[r].id = h.msg.id
       /\ ReplyTo(h.msg.id).ok
       /\ ChunkSolutions(ReplyTo(h.msg.id).results)
            = SelectorSolutions(SelectorRanking(h.msg, h.policy))

\* a chunk of three candidates was answered with the two best of them: the
\* loop pushed, sorted and cut its results, or broke off
C34_ChunkTrimmed ==
  \E k \in AnsweredChunks :
    /\ Len(utility.handled[k].msg.tasks.list) = 3
    /\ utility.handled[k].msg.numResults = 2
    /\ utility.handled[k].msg.pruningThreshold < 100
    /\ Len(ReplyTo(utility.handled[k].msg.id).results) = 2

(***************************************************************************)
(* Settlement of the tracked computation                                   *)
(***************************************************************************)
Pending(id) == \E i \in 1..Len(pending) : pending[i].id = id
Computing == inFlightFind # NoFind

\* a tracked computation is one that has not settled
TrackedIsPending == Computing => Pending(inFlightFind.id)
\* the settlement of the tracked computation clears the record
SettlementClears ==
  [][(Computing /\ Pending(inFlightFind.id) /\ ~Pending(inFlightFind.id)')
       => inFlightFind' = NoFind]_vars

\* C35: every computation launched through the worker eventually settles
\* (reply, worker error or timeout); when it settles the record that tracks
\* it is cleared; hence the status does not stay 'computing' forever
C35_NoStuckRecord ==
  /\ []TrackedIsPending
  /\ SettlementClears
  /\ \A id \in 1..MaxLaunches : Pending(id) ~> ~Pending(id)
  /\ Computing ~> ~Computing

\* a computation sent to a worker thread that had ended was tracked, and its
\* timeout cleared the record
C35_TimedOutOnDeadWorker ==
  /\ ev.op = "rejected"
  /\ ev.tracked
  /\ ~workerAlive
  /\ ev.id = nextId - 1
  /\ inFlightFind = NoFind

(***************************************************************************)
(* Settlement and the in-flight record                                     *)
(***************************************************************************)
\* one request settles (resolved or rejected) while the record tracks a
\* computation that was launched later
EarlierSettles ==
  /\ ev'.op \in {"resolved", "rejected"}
  /\ inFlightFind # NoFind
  /\ ev'.id < inFlightFind.id

\* C36: the settlement of one computation leaves the in-flight record of a
\* later-launched computation set, also when both computations have the same
\* signature
C36_NewerRecordKept ==
  [][EarlierSettles => inFlightFind' = inFlightFind]_vars

(***************************************************************************)
(* Drop and accept signals of one snapshot                                 *)
(***************************************************************************)
\* the task types with a drop-signaled held slot
DroppedTypes == {activeBounties[i] : i \in activeDrops}
\* the task types with an accept-signaled offered slot
AcceptedTypes == {boardBounties[j] : j \in boardPickups}

\* C37: after every snapshot, no task type has both a drop-signaled held slot
\* and an accept-signaled offered slot
C37_NoDropAndAccept ==
  ev.op = "snapshot" => DroppedTypes \cap AcceptedTypes = {}

\* a snapshot signals a drop of one type and an accept of another
C37_DropOneAcceptOther ==
  /\ ev.op = "snapshot"
  /\ DroppedTypes # {}
  /\ AcceptedTypes # {}
  /\ \E b \in DroppedTypes : b # PUMPKIN

(***************************************************************************)
(* Convergence on an unchanging screen                                     *)
(***************************************************************************)
\* the signature of the tasks of the latest snapshot
ObservedSignature ==
  makeAllBountiesSignature(
    SelectSeq(Values(activeBounties) \o Values(boardBounties), NotPumpkin))

\* no computation is in flight and the last computation that completed was
\* for the tasks observed
Converged ==
  /\ inFlightFind = NoFind
  /\ prevAllBountiesSignature = ObservedSignature

\* no further computation can be launched within MaxLaunches
LaunchesUsedUp == nextId > MaxLaunches

\* C38: once every snapshot is identical and every launched computation
\* settles, eventually no computation is in flight and the last-computed
\* signature is the observed one (as far as MaxLaunches lets computations
\* be launched)
C38_Convergence == <>[](Converged \/ LaunchesUsedUp)

(***************************************************************************)
(* The cached Solution and the tasks observed                              *)
(***************************************************************************)
\* the tasks, held plus offered, of the latest snapshot
ObservedTasks == Values(activeBounties) \o Values(boardBounties)

\* C39: whenever a Solution is cached, no computation is in flight and the
\* last-computed signature is the signature of the latest snapshot, the
\* cached subset is a sub-multiset of the tasks of that snapshot
C39_SolutionFromObserved ==
  (/\ prevOptimalBounties # <<>>
   /\ inFlightFind = NoFind
   /\ prevAllBountiesSignature = ObservedSignature)
  => \A b \in BountyKeys :
       CountOf(prevOptimalBounties, b) <= CountOf(ObservedTasks, b)

(***************************************************************************)
(* Termination of findBestRoute                                            *)
(***************************************************************************)
StatusRank(s) ==
  CASE s = NOT_STARTED -> 0 [] s = IN_PROGRESS -> 1 [] s = COMPLETED -> 2

RECURSIVE Expansions(_, _, _, _, _, _, _)
\* the entries the while loop of findBestRoute expands, in the order of the
\* iterations: the node, the arrival time, and the status list on arrival
\* and after the sell and buy loops
Expansions(bounties, gps, bestDistance, roundTrip, policy, pq, visited) ==
  LET live == {i \in 1..Len(pq) :
                 ~(pq[i].distance >= bestDistance \/ Seen(visited, pq[i]))}
  IN IF live = {} THEN <<>>
     ELSE
       LET k == CHOOSE i \in live : \A j \in live \ {i} : Before(pq, policy, i, j)
           e == pq[k]
           rest == PickSeq(pq, {j \in 1..Len(pq) : Before(pq, policy, k, j)}, 1)
           v == Visit(bounties, gps, e)
           final == WithReturn(gps, e, v, roundTrip)
           entry == [node |-> e.currentNode, previousNode |-> e.previousNode,
                     distance |-> e.distance, before |-> e.bountyStates,
                     after |-> v.bountyStates]
       IN IF v.distance >= bestDistance
          THEN <<entry>> \o Expansions(bounties, gps, bestDistance, roundTrip, policy,
                                       rest, Mark(visited, e))
          ELSE IF deliveriesCompleted(v.bountyStates) /\ Under(final.distance, bestDistance)
          THEN <<entry>>
          ELSE <<entry>> \o Expansions(bounties, gps, bestDistance, roundTrip, policy,
                                       rest \o Successors(bounties, gps, e, v, bestDistance),
                                       Mark(visited, e))

\* the expansions of the call that is followed
RouteLog ==
  Expansions(call.bounties, GPS, call.threshold, call.roundTrip, call.policy,
             <<[distance |-> 0, previousNode |-> None, currentNode |-> bountyBoard,
                bountyStates |-> [i \in 1..Len(call.bounties) |-> NOT_STARTED],
                actions |-> <<>>]>>,
             {})

\* the statuses of an expansion only move forward, and an entry continues the
\* status list that an earlier expansion at its previous node left
StatusForward(log, n) ==
  /\ \A i \in 1..Len(log[n].before) :
       /\ StatusRank(log[n].before[i]) <= StatusRank(log[n].after[i])
       /\ StatusRank(log[n].after[i]) <= StatusRank(log[n].before[i]) + 2
  /\ log[n].previousNode # None
       => \E m \in 1..(n - 1) : /\ log[m].node = log[n].previousNode
                                /\ log[m].after = log[n].before

\* C40: findBestRoute returns for every task list of at most MaxTasks tasks:
\* along every search path each task status only moves forward, every stop
\* expanded after the start at the board changes the status of at least one
\* task, a (node, status list) pair is expanded again only with a strictly
\* smaller arrival time, and the call ends with a complete route or with
\* the queue empty
C40_SearchTerminates ==
  RouteDone
    => \E log \in {RouteLog} :
         /\ \A n \in 1..Len(log) : StatusForward(log, n)
         /\ \A n \in 1..Len(log) :
              log[n].previousNode # None => log[n].after # log[n].before
         /\ \A m, n \in 1..Len(log) :
              (m < n /\ log[m].node = log[n].node /\ log[m].before = log[n].before)
                => log[n].distance < log[m].distance
         /\ {log[n].after : n \in 1..Len(log)} = returnedRoute.explored
         /\ returnedRoute.found \/ returnedRoute.left = <<>>

\* a search that branched: two stops were expanded from one status list, and
\* an entry for a pair already expanded is still queued when the route is
\* returned
C40_PairReachedAgain ==
  /\ RouteDone
  /\ returnedRoute.found
  /\ \E log \in {RouteLog} :
       /\ \E m, n \in 1..Len(log) :
            m < n /\ log[m].before = log[n].before /\ log[m].node # log[n].node
       /\ \E j \in 1..Len(returnedRoute.left), n \in 1..Len(log) :
            /\ returnedRoute.left[j].currentNode = log[n].node
            /\ returnedRoute.left[j].bountyStates = log[n].before

====
